---- MODULE Spec2Model ----
(***************************************************************************)
(* Model of the frame-sampling / evidence-aggregation pipeline of          *)
(* app/analyze.py (extract_products_from_image, analyze_video_for_query,   *)
(* evaluate_summary_accuracy).                                             *)
(***************************************************************************)
EXTENDS Integers, Sequences, FiniteSets, TLC

\* ------------------------------------------------------------------------
\* Binary64 arithmetic.  Python evaluates  frame_index / fps,  * 1000  and
\* * 0.9  in IEEE-754 double precision with round-to-nearest-even; the
\* operators below compute the same results bit for bit.  A natural number
\* of arbitrary size is a sequence of limbs in base 2^LimbBits, least
\* significant limb first, without leading zero limbs.
\* ------------------------------------------------------------------------

\* Width of a binary64 significand.
SigBits == 53

\* Width of one limb.
LimbBits == 13

\* Number of zero limbs prepended to the dividend of a long division, so
\* that the quotient carries more than SigBits + 1 significant bits.
DivLimbs == 6

RECURSIVE Pow2(_)
Pow2(n) == IF n = 0 THEN 1 ELSE 2 * Pow2(n - 1)

Base == Pow2(LimbBits)

ZeroLimbs(n) == [i \in 1..n |-> 0]

RECURSIVE BitLenNat(_)
BitLenNat(n) == IF n = 0 THEN 0 ELSE 1 + BitLenNat(n \div 2)

RECURSIVE TrimLimbs(_)
TrimLimbs(a) ==
    IF a = <<>> THEN <<>>
    ELSE IF a[Len(a)] = 0 THEN TrimLimbs(SubSeq(a, 1, Len(a) - 1)) ELSE a

\* Carry propagation over column sums.
RECURSIVE Normalize(_, _)
Normalize(cols, carry) ==
    IF cols = <<>>
    THEN (IF carry = 0 THEN <<>> ELSE <<carry % Base>> \o Normalize(<<>>, carry \div Base))
    ELSE LET v == cols[1] + carry
         IN  <<v % Base>> \o Normalize(Tail(cols), v \div Base)

NatToLimbs(n) == Normalize(<<>>, n)

RECURSIVE LimbsToNat(_)
LimbsToNat(a) == IF a = <<>> THEN 0 ELSE a[1] + Base * LimbsToNat(Tail(a))

BitLen(a) == IF a = <<>> THEN 0 ELSE LimbBits * (Len(a) - 1) + BitLenNat(a[Len(a)])

RECURSIVE ColumnSum(_, _, _, _)
ColumnSum(a, b, k, i) ==
    IF i > Len(a) THEN 0
    ELSE (IF k + 1 - i >= 1 /\ k + 1 - i <= Len(b) THEN a[i] * b[k + 1 - i] ELSE 0)
         + ColumnSum(a, b, k, i + 1)

MulLimbs(a, b) ==
    IF a = <<>> \/ b = <<>> THEN <<>>
    ELSE TrimLimbs(Normalize([k \in 1..(Len(a) + Len(b) - 1) |-> ColumnSum(a, b, k, 1)], 0))

\* a * 2^s
ShiftLeft(a, s) ==
    ZeroLimbs(s \div LimbBits) \o MulLimbs(a, <<Pow2(s % LimbBits)>>)

\* a \div 2^s
ShiftRight(a, s) ==
    LET w == s \div LimbBits
        r == s % LimbBits
        limb(i) == IF i <= Len(a) THEN a[i] ELSE 0
    IN  IF w >= Len(a) THEN <<>>
        ELSE TrimLimbs([i \in 1..(Len(a) - w) |->
                 (limb(i + w) \div Pow2(r)) + (limb(i + w + 1) % Pow2(r)) * Pow2(LimbBits - r)])

\* bit p (counted from 0) of a
BitAt(a, p) ==
    IF p \div LimbBits + 1 > Len(a) THEN 0
    ELSE (a[p \div LimbBits + 1] \div Pow2(p % LimbBits)) % 2

\* TRUE iff one of the p lowest bits of a is set
LowBitsSet(a, p) ==
    \/ \E i \in 1..Len(a) : i <= p \div LimbBits /\ a[i] # 0
    \/ /\ p \div LimbBits + 1 <= Len(a)
       /\ a[p \div LimbBits + 1] % Pow2(p % LimbBits) # 0

\* Long division of a by the small positive integer d, most significant limb
\* first; r is the running remainder.
RECURSIVE DivSmall(_, _, _)
DivSmall(a, d, r) ==
    IF a = <<>> THEN [quot |-> <<>>, rem |-> r]
    ELSE LET cur == r * Base + a[Len(a)]
             low == DivSmall(SubSeq(a, 1, Len(a) - 1), d, cur % d)
         IN  [quot |-> low.quot \o <<cur \div d>>, rem |-> low.rem]

\* A double is zero or  sig * 2^exp  with BitLen(sig) = SigBits.
DZero == [sig |-> <<>>, exp |-> 0]

\* The double nearest to  n * 2^exp  (plus, when sticky, a positive amount
\* below one unit of 2^exp), ties to even.  n is non-zero; when sticky,
\* n has more than SigBits + 1 bits.
RoundToDouble(n, exp, sticky) ==
    IF BitLen(n) <= SigBits
    THEN [sig |-> ShiftLeft(n, SigBits - BitLen(n)), exp |-> exp - (SigBits - BitLen(n))]
    ELSE LET d   == BitLen(n) - SigBits
             top == ShiftRight(n, d)
             up  == /\ BitAt(n, d - 1) = 1
                    /\ (sticky \/ LowBitsSet(n, d - 1) \/ BitAt(top, 0) = 1)
             inc == IF up THEN Normalize(top, 1) ELSE top
         IN  IF BitLen(inc) > SigBits
             THEN [sig |-> ShiftRight(inc, 1), exp |-> exp + d + 1]
             ELSE [sig |-> inc, exp |-> exp + d]

\* float(n) for a natural number n
DFromNat(n) == IF n = 0 THEN DZero ELSE RoundToDouble(NatToLimbs(n), 0, FALSE)

\* a / b for a natural number a and a positive integer-valued double b
DDivNat(a, b) ==
    IF a = 0 THEN DZero
    ELSE LET qr == DivSmall(ZeroLimbs(DivLimbs) \o NatToLimbs(a), b, 0)
         IN  RoundToDouble(TrimLimbs(qr.quot), 0 - DivLimbs * LimbBits, qr.rem # 0)

\* x * y
DMul(x, y) ==
    IF x.sig = <<>> \/ y.sig = <<>> THEN DZero
    ELSE RoundToDouble(MulLimbs(x.sig, y.sig), x.exp + y.exp, FALSE)

\* int(x) for x >= 0
DTrunc(x) ==
    IF x.sig = <<>> THEN 0
    ELSE IF x.exp >= 0 THEN LimbsToNat(ShiftLeft(x.sig, x.exp))
    ELSE LimbsToNat(ShiftRight(x.sig, 0 - x.exp))

\* TRUE iff x has a non-zero fractional part
DHasFraction(x) == x.sig # <<>> /\ x.exp < 0 /\ LowBitsSet(x.sig, 0 - x.exp)

\* n < x for an integer n >= 0 and a double x >= 0
IntLessDouble(n, x) ==
    \/ n < DTrunc(x)
    \/ n = DTrunc(x) /\ DHasFraction(x)

\* The literals 1000 and 0.9 as doubles.
D1000 == DFromNat(1000)
D09 == DDivNat(9, 10)

\* ------------------------------------------------------------------------
\* Text.  A Python str is a sequence of characters; a character outside
\* ASCII is written "U+<code point>".
\* ------------------------------------------------------------------------

UpperCase ==
    <<"A", "B", "C", "D", "E", "F", "G", "H", "I", "J", "K", "L", "M",
      "N", "O", "P", "Q", "R", "S", "T", "U", "V", "W", "X", "Y", "Z">>

LowerCase ==
    <<"a", "b", "c", "d", "e", "f", "g", "h", "i", "j", "k", "l", "m",
      "n", "o", "p", "q", "r", "s", "t", "u", "v", "w", "x", "y", "z">>

LowerMap == [i \in 1..Len(UpperCase) |-> LowerCase[i]]

UpperIndex == [c \in {UpperCase[i] : i \in 1..Len(UpperCase)} |->
                  CHOOSE i \in 1..Len(UpperCase) : UpperCase[i] = c]

LowerChar(c) == IF c \in DOMAIN UpperIndex THEN LowerMap[UpperIndex[c]] ELSE c

\* str.lower()
Lower(s) == [i \in 1..Len(s) |-> LowerChar(s[i])]

\* needle in hay
Contains(hay, needle) ==
    \/ needle = <<>>
    \/ \E i \in 1..(Len(hay) - Len(needle) + 1) :
           hay[i] = needle[1] /\ SubSeq(hay, i, i + Len(needle) - 1) = needle

\* s.endswith(suffix)
EndsWith(s, suffix) ==
    /\ Len(s) >= Len(suffix)
    /\ SubSeq(s, Len(s) - Len(suffix) + 1, Len(s)) = suffix

Whitespace == {" ", "\n", "\t", "\r"}

\* str.strip()
Strip(s) ==
    LET n     == Len(s)
        blank == \A i \in 1..n : s[i] \in Whitespace
        first == CHOOSE i \in 1..n :
                     s[i] \notin Whitespace /\ \A j \in 1..(i - 1) : s[j] \in Whitespace
        last  == CHOOSE i \in 1..n :
                     s[i] \notin Whitespace /\ \A j \in (i + 1)..n : s[j] \in Whitespace
    IN  IF blank THEN <<>> ELSE SubSeq(s, first, last)

Digits == <<"0", "1", "2", "3", "4", "5", "6", "7", "8", "9">>

\* str(n) for an int n >= 0
RECURSIVE IntToStr(_)
IntToStr(n) ==
    IF n < 10 THEN <<Digits[n + 1]>>
    ELSE IntToStr(n \div 10) \o <<Digits[(n % 10) + 1]>>

\* None, the frame_number of a still-image call: an integer that is no frame
\* index.
None == 0 - 1

\* f"{x}" for an int or None
Format(x) == IF x = None THEN <<"N", "o", "n", "e">> ELSE IntToStr(x)

\* Presence keywords, analyze.py lines 144-146.

\* 'located'
KwLocated ==
    <<"l", "o", "c", "a", "t", "e", "d">>

\* 'visible'
KwVisible ==
    <<"v", "i", "s", "i", "b", "l", "e">>

\* 'is on'
KwIsOn ==
    <<"i", "s", " ", "o", "n">>

\* 'can be seen'
KwCanBeSeen ==
    <<"c", "a", "n", " ", "b", "e", " ", "s", "e", "e", "n">>

\* 'placed'
KwPlaced ==
    <<"p", "l", "a", "c", "e", "d">>

\* 'sitting'
KwSitting ==
    <<"s", "i", "t", "t", "i", "n", "g">>

\* 'present'
KwPresent ==
    <<"p", "r", "e", "s", "e", "n", "t">>

\* 'seen'
KwSeen ==
    <<"s", "e", "e", "n">>

PresenceKeywords ==
    {KwLocated, KwVisible, KwIsOn, KwCanBeSeen, KwPlaced, KwSitting, KwPresent, KwSeen}

\* Uncertainty phrases, analyze.py lines 147-148.

\* 'not visible'
UnNotVisible ==
    <<"n", "o", "t", " ", "v", "i", "s", "i", "b", "l", "e">>

\* 'not found'
UnNotFound ==
    <<"n", "o", "t", " ", "f", "o", "u", "n", "d">>

\* 'unclear'
UnUnclear ==
    <<"u", "n", "c", "l", "e", "a", "r">>

\* 'could be'
UnCouldBe ==
    <<"c", "o", "u", "l", "d", " ", "b", "e">>

\* 'might be'
UnMightBe ==
    <<"m", "i", "g", "h", "t", " ", "b", "e">>

\* 'probably'
UnProbably ==
    <<"p", "r", "o", "b", "a", "b", "l", "y">>

UncertainPhrases ==
    {UnNotVisible, UnNotFound, UnUnclear, UnCouldBe, UnMightBe, UnProbably}

\* 'end'
KwEnd ==
    <<"e", "n", "d">>

\* 'timeout'
KwTimeout ==
    <<"t", "i", "m", "e", "o", "u", "t">>

\* 'connection'
KwConnection ==
    <<"c", "o", "n", "n", "e", "c", "t", "i", "o", "n">>

\* 'network'
KwNetwork ==
    <<"n", "e", "t", "w", "o", "r", "k">>

\* 'connect'
KwConnect ==
    <<"c", "o", "n", "n", "e", "c", "t">>

NetErrWords == {KwConnection, KwNetwork, KwConnect}

\* '.jpg'
ExtJpg ==
    <<".", "j", "p", "g">>

\* '.jpeg'
ExtJpeg ==
    <<".", "j", "p", "e", "g">>

\* '.png'
ExtPng ==
    <<".", "p", "n", "g">>

ImageSuffixes == {ExtJpg, ExtJpeg, ExtPng}

\* '[Skipped frame '
SkippedFrame ==
    <<"[", "S", "k", "i", "p", "p", "e", "d", " ", "f", "r", "a", "m", "e",
      " ">>

\* ' due to timeout. Try again later.]'
DueToTimeout ==
    <<" ", "d", "u", "e", " ", "t", "o", " ", "t", "i", "m", "e", "o", "u",
      "t", ".", " ", "T", "r", "y", " ", "a", "g", "a", "i", "n", " ", "l",
      "a", "t", "e", "r", ".", "]">>

\* ' due to connection error. Check your internet connection.]'
DueToConnection ==
    <<" ", "d", "u", "e", " ", "t", "o", " ", "c", "o", "n", "n", "e", "c",
      "t", "i", "o", "n", " ", "e", "r", "r", "o", "r", ".", " ", "C", "h",
      "e", "c", "k", " ", "y", "o", "u", "r", " ", "i", "n", "t", "e", "r",
      "n", "e", "t", " ", "c", "o", "n", "n", "e", "c", "t", "i", "o", "n",
      ".", "]">>

\* ' due to error: '
DueToError ==
    <<" ", "d", "u", "e", " ", "t", "o", " ", "e", "r", "r", "o", "r", ":",
      " ">>

\* ']'
CloseBracket ==
    <<"]">>

\* 'Error: Azure OpenAI API credentials are missing. Please check your .env file.'
CredentialsMissing ==
    <<"E", "r", "r", "o", "r", ":", " ", "A", "z", "u", "r", "e", " ", "O",
      "p", "e", "n", "A", "I", " ", "A", "P", "I", " ", "c", "r", "e", "d",
      "e", "n", "t", "i", "a", "l", "s", " ", "a", "r", "e", " ", "m", "i",
      "s", "s", "i", "n", "g", ".", " ", "P", "l", "e", "a", "s", "e", " ",
      "c", "h", "e", "c", "k", " ", "y", "o", "u", "r", " ", ".", "e", "n",
      "v", " ", "f", "i", "l", "e", ".">>

\* '🖼 Frame '
FramePrefix ==
    <<"U+1F5BC", " ", "F", "r", "a", "m", "e", " ">>

\* ' ('
OpenParen ==
    <<" ", "(">>

\* ' ms):\n'
MsSuffix ==
    <<" ", "m", "s", ")", ":", "\n">>

\* ------------------------------------------------------------------------
\* Inputs: the arguments of analyze_video_for_query, the video source that
\* cv2.VideoCapture opens, and the answers of the hosted model.
\* ------------------------------------------------------------------------

\* Largest number of frames a source decodes to.
MaxFrames == 10

\* Largest number of frames sampled in one run.
MaxSamples == 2

\* The largest frame index whose timestamp is computed on its own.
MaxIndex == 1000

\* Rates for those frames: unknown (0.0), 25 frames per second, and the
\* 1000 that is reported for files with a millisecond time base.
StampRates == {0, 25, 1000}

\* Frame rates a source reports (CAP_PROP_FPS), integer-valued; 0 is what
\* OpenCV reports when the container carries no rate.
FpsValues == {0, 1, 75}

\* 'shelf.mp4'
PathVideo ==
    <<"s", "h", "e", "l", "f", ".", "m", "p", "4">>

\* 'shelf.JPG'
PathImage ==
    <<"s", "h", "e", "l", "f", ".", "J", "P", "G">>

VideoPaths == {PathVideo, PathImage}

\* 'Where is Tide located?'
QuestionTide ==
    <<"W", "h", "e", "r", "e", " ", "i", "s", " ", "T", "i", "d", "e", " ",
      "l", "o", "c", "a", "t", "e", "d", "?">>

Questions == {QuestionTide}

\* message.content of a per-frame answer, before .strip().

\* 'Tide is located on the top shelf.'
AnsLocated ==
    <<"T", "i", "d", "e", " ", "i", "s", " ", "l", "o", "c", "a", "t", "e",
      "d", " ", "o", "n", " ", "t", "h", "e", " ", "t", "o", "p", " ", "s",
      "h", "e", "l", "f", ".">>

\* 'Not visible in this frame.\n'
AnsNotVisible ==
    <<"N", "o", "t", " ", "v", "i", "s", "i", "b", "l", "e", " ", "i", "n",
      " ", "t", "h", "i", "s", " ", "f", "r", "a", "m", "e", ".", "\n">>

\* 'Tide can be seen at the end of the aisle.'
AnsAtEnd ==
    <<"T", "i", "d", "e", " ", "c", "a", "n", " ", "b", "e", " ", "s", "e",
      "e", "n", " ", "a", "t", " ", "t", "h", "e", " ", "e", "n", "d", " ",
      "o", "f", " ", "t", "h", "e", " ", "a", "i", "s", "l", "e", ".">>

\* 'No Tide here.'
AnsNothing ==
    <<"N", "o", " ", "T", "i", "d", "e", " ", "h", "e", "r", "e", ".">>

VisionContents == {AnsLocated, AnsNotVisible, AnsAtEnd, AnsNothing}

\* Exception type names and messages.

\* 'APITimeoutError'
TyAPITimeoutError ==
    <<"A", "P", "I", "T", "i", "m", "e", "o", "u", "t", "E", "r", "r", "o",
      "r">>

\* 'Request timed out.'
MsgRequestTimedOut ==
    <<"R", "e", "q", "u", "e", "s", "t", " ", "t", "i", "m", "e", "d", " ",
      "o", "u", "t", ".">>

\* 'ReadTimeout'
TyReadTimeout ==
    <<"R", "e", "a", "d", "T", "i", "m", "e", "o", "u", "t">>

\* 'Read timed out. (read timeout=30)'
MsgReadTimeout ==
    <<"R", "e", "a", "d", " ", "t", "i", "m", "e", "d", " ", "o", "u", "t",
      ".", " ", "(", "r", "e", "a", "d", " ", "t", "i", "m", "e", "o", "u",
      "t", "=", "3", "0", ")">>

\* 'APIConnectionError'
TyAPIConnectionError ==
    <<"A", "P", "I", "C", "o", "n", "n", "e", "c", "t", "i", "o", "n", "E",
      "r", "r", "o", "r">>

\* 'Connection error.'
MsgConnectionError ==
    <<"C", "o", "n", "n", "e", "c", "t", "i", "o", "n", " ", "e", "r", "r",
      "o", "r", ".">>

\* 'FileNotFoundError'
TyFileNotFoundError ==
    <<"F", "i", "l", "e", "N", "o", "t", "F", "o", "u", "n", "d", "E", "r",
      "r", "o", "r">>

\* '[Errno 2] No such file or directory'
MsgNoSuchFile ==
    <<"[", "E", "r", "r", "n", "o", " ", "2", "]", " ", "N", "o", " ", "s",
      "u", "c", "h", " ", "f", "i", "l", "e", " ", "o", "r", " ", "d", "i",
      "r", "e", "c", "t", "o", "r", "y">>

\* 'RateLimitError'
TyRateLimitError ==
    <<"R", "a", "t", "e", "L", "i", "m", "i", "t", "E", "r", "r", "o", "r">>

\* 'Error code: 429'
MsgRateLimit ==
    <<"E", "r", "r", "o", "r", " ", "c", "o", "d", "e", ":", " ", "4", "2",
      "9">>

\* 'ZeroDivisionError'
TyZeroDivisionError ==
    <<"Z", "e", "r", "o", "D", "i", "v", "i", "s", "i", "o", "n", "E", "r",
      "r", "o", "r">>


\* What one per-frame call meets.  kind says what happened at the boundary:
\* "ok" (an answer came back), "timeout" (the 30 s limit of line 88 expired),
\* "connection" (the endpoint was unreachable), "other" (any other failure),
\* "nocall" (the credentials check of lines 40-42 returned first).  at says
\* where an exception is raised: in encode_image (line 30) or in the request
\* (lines 62-91).  The openai client reports an expired limit as
\* APITimeoutError("Request timed out."); a transport below it reports
\* ReadTimeout with a message that names the limit.
Answer(content) ==
    [kind |-> "ok", at |-> "api", content |-> content, type |-> <<>>, message |-> <<>>]

Failure(kind, at, type, message) ==
    [kind |-> kind, at |-> at, content |-> <<>>, type |-> type, message |-> message]

NotCalled == [kind |-> "nocall", at |-> "api", content |-> <<>>, type |-> <<>>, message |-> <<>>]

VisionFailures ==
    { Failure("timeout", "api", TyAPITimeoutError, MsgRequestTimedOut),
      Failure("timeout", "api", TyReadTimeout, MsgReadTimeout),
      Failure("connection", "api", TyAPIConnectionError, MsgConnectionError),
      Failure("other", "encode", TyFileNotFoundError, MsgNoSuchFile) }

VisionOutcomes == {Answer(c) : c \in VisionContents} \cup VisionFailures

\* The outcomes possible with and without complete credentials.
OutcomesFor(credentials) ==
    IF credentials THEN VisionOutcomes
    ELSE {o \in VisionFailures : o.at = "encode"} \cup {NotCalled}

\* message.content of the summary call, before .strip().

\* 'Tide is on the top shelf.\nproduct_name = Tide'
SumOnShelf ==
    <<"T", "i", "d", "e", " ", "i", "s", " ", "o", "n", " ", "t", "h", "e",
      " ", "t", "o", "p", " ", "s", "h", "e", "l", "f", ".", "\n", "p", "r",
      "o", "d", "u", "c", "t", "_", "n", "a", "m", "e", " ", "=", " ", "T",
      "i", "d", "e">>

\* 'Tide is NOT VISIBLE in the video.\n'
SumNotVisible ==
    <<"T", "i", "d", "e", " ", "i", "s", " ", "N", "O", "T", " ", "V", "I",
      "S", "I", "B", "L", "E", " ", "i", "n", " ", "t", "h", "e", " ", "v",
      "i", "d", "e", "o", ".", "\n">>

SummaryContents == {SumOnShelf, SumNotVisible}

\* message.content of the evaluation call, before .strip().

\* 'Accuracy Score (0-100)%: 95'
EvalGood ==
    <<"A", "c", "c", "u", "r", "a", "c", "y", " ", "S", "c", "o", "r", "e",
      " ", "(", "0", "-", "1", "0", "0", ")", "%", ":", " ", "9", "5">>

\* 'Accuracy Score (0-100)%: 10\nnot visible'
EvalBad ==
    <<"A", "c", "c", "u", "r", "a", "c", "y", " ", "S", "c", "o", "r", "e",
      " ", "(", "0", "-", "1", "0", "0", ")", "%", ":", " ", "1", "0", "\n",
      "n", "o", "t", " ", "v", "i", "s", "i", "b", "l", "e">>

EvalContents == {EvalGood, EvalBad}


\* Outcomes of the summary call (lines 182-192) and of the evaluation call
\* (lines 257-265): an answer, or an exception of the client.
SummaryOutcomes ==
    {Answer(c) : c \in SummaryContents}
        \cup {Failure("other", "api", TyRateLimitError, MsgRateLimit)}

EvalOutcomes ==
    {Answer(c) : c \in EvalContents}
        \cup {Failure("timeout", "api", TyAPITimeoutError, MsgRequestTimedOut)}

\* Summaries (base_summary, line 194) and questions for the choice of the
\* product name, lines 204-206 and 216-218.

\* 'Tide is on the top shelf.\nproduct_name = Tide'
SumMarkerTide ==
    <<"T", "i", "d", "e", " ", "i", "s", " ", "o", "n", " ", "t", "h", "e",
      " ", "t", "o", "p", " ", "s", "h", "e", "l", "f", ".", "\n", "p", "r",
      "o", "d", "u", "c", "t", "_", "n", "a", "m", "e", " ", "=", " ", "T",
      "i", "d", "e">>

\* 'Tide is on the top shelf.\nproduct_name = Unknown'
SumMarkerCapUnknown ==
    <<"T", "i", "d", "e", " ", "i", "s", " ", "o", "n", " ", "t", "h", "e",
      " ", "t", "o", "p", " ", "s", "h", "e", "l", "f", ".", "\n", "p", "r",
      "o", "d", "u", "c", "t", "_", "n", "a", "m", "e", " ", "=", " ", "U",
      "n", "k", "n", "o", "w", "n">>

\* 'Tide is on the top shelf.\nproduct_name = UNKNOWN'
SumMarkerUpperUnknown ==
    <<"T", "i", "d", "e", " ", "i", "s", " ", "o", "n", " ", "t", "h", "e",
      " ", "t", "o", "p", " ", "s", "h", "e", "l", "f", ".", "\n", "p", "r",
      "o", "d", "u", "c", "t", "_", "n", "a", "m", "e", " ", "=", " ", "U",
      "N", "K", "N", "O", "W", "N">>

\* 'Tide is on the top shelf.\nproduct_name = unknown'
SumMarkerUnknown ==
    <<"T", "i", "d", "e", " ", "i", "s", " ", "o", "n", " ", "t", "h", "e",
      " ", "t", "o", "p", " ", "s", "h", "e", "l", "f", ".", "\n", "p", "r",
      "o", "d", "u", "c", "t", "_", "n", "a", "m", "e", " ", "=", " ", "u",
      "n", "k", "n", "o", "w", "n">>

\* 'Tide is on the top shelf.\nPRODUCT_NAME = Tide Detergent'
SumUpperKey ==
    <<"T", "i", "d", "e", " ", "i", "s", " ", "o", "n", " ", "t", "h", "e",
      " ", "t", "o", "p", " ", "s", "h", "e", "l", "f", ".", "\n", "P", "R",
      "O", "D", "U", "C", "T", "_", "N", "A", "M", "E", " ", "=", " ", "T",
      "i", "d", "e", " ", "D", "e", "t", "e", "r", "g", "e", "n", "t">>

\* 'Tide is on the top shelf.'
SumNoMarker ==
    <<"T", "i", "d", "e", " ", "i", "s", " ", "o", "n", " ", "t", "h", "e",
      " ", "t", "o", "p", " ", "s", "h", "e", "l", "f", ".">>

\* 'Tide is on the top shelf.\nproduct_name ='
SumEmptyValue ==
    <<"T", "i", "d", "e", " ", "i", "s", " ", "o", "n", " ", "t", "h", "e",
      " ", "t", "o", "p", " ", "s", "h", "e", "l", "f", ".", "\n", "p", "r",
      "o", "d", "u", "c", "t", "_", "n", "a", "m", "e", " ", "=">>

\* 'product_name = Surf Excel\nIt is on shelf 2.'
SumMarkerFirst ==
    <<"p", "r", "o", "d", "u", "c", "t", "_", "n", "a", "m", "e", " ", "=",
      " ", "S", "u", "r", "f", " ", "E", "x", "c", "e", "l", "\n", "I", "t",
      " ", "i", "s", " ", "o", "n", " ", "s", "h", "e", "l", "f", " ", "2",
      ".">>

\* 'Where is it? product_name = Ariel'
QuestionMarkerAriel ==
    <<"W", "h", "e", "r", "e", " ", "i", "s", " ", "i", "t", "?", " ", "p",
      "r", "o", "d", "u", "c", "t", "_", "n", "a", "m", "e", " ", "=", " ",
      "A", "r", "i", "e", "l">>

\* 'product_name = unknown'
QuestionMarkerUnknown ==
    <<"p", "r", "o", "d", "u", "c", "t", "_", "n", "a", "m", "e", " ", "=",
      " ", "u", "n", "k", "n", "o", "w", "n">>

\* 'Is Ariel visible?\nproduct_name = Ariel Matic'
QuestionTwoLines ==
    <<"I", "s", " ", "A", "r", "i", "e", "l", " ", "v", "i", "s", "i", "b",
      "l", "e", "?", "\n", "p", "r", "o", "d", "u", "c", "t", "_", "n", "a",
      "m", "e", " ", "=", " ", "A", "r", "i", "e", "l", " ", "M", "a", "t",
      "i", "c">>

\* 'Which shelf has soap?'
QuestionSoap ==
    <<"W", "h", "i", "c", "h", " ", "s", "h", "e", "l", "f", " ", "h", "a",
      "s", " ", "s", "o", "a", "p", "?">>

\* 'PRODUCT_NAME = Dove'
QuestionUpperKey ==
    <<"P", "R", "O", "D", "U", "C", "T", "_", "N", "A", "M", "E", " ", "=",
      " ", "D", "o", "v", "e">>

\* 'product_name ='
QuestionEmptyValue ==
    <<"p", "r", "o", "d", "u", "c", "t", "_", "n", "a", "m", "e", " ", "=">>

ProductSummaries ==
    {SumMarkerTide, SumMarkerCapUnknown, SumMarkerUpperUnknown, SumMarkerUnknown,
     SumUpperKey, SumNoMarker, SumEmptyValue, SumMarkerFirst}

ProductQuestions ==
    {QuestionTide, QuestionMarkerAriel, QuestionMarkerUnknown, QuestionTwoLines,
     QuestionSoap, QuestionUpperKey, QuestionEmptyValue}

\* More summaries, for the summary section of the dashboard
\* (st.session_state.summary, streamlit_app.py line 240).

\* 'Tide is on shelf 2.\n\nproduct_name = Tide\n\nAsk the staff.'
SumBlankLines ==
    <<"T", "i", "d", "e", " ", "i", "s", " ", "o", "n", " ", "s", "h", "e",
      "l", "f", " ", "2", ".", "\n", "\n", "p", "r", "o", "d", "u", "c", "t",
      "_", "n", "a", "m", "e", " ", "=", " ", "T", "i", "d", "e", "\n", "\n",
      "A", "s", "k", " ", "t", "h", "e", " ", "s", "t", "a", "f", "f", ".">>

\* 'Tide is here.\n  product_name = Tide  \nSee shelf 2.'
SumMarkerMid ==
    <<"T", "i", "d", "e", " ", "i", "s", " ", "h", "e", "r", "e", ".", "\n",
      " ", " ", "p", "r", "o", "d", "u", "c", "t", "_", "n", "a", "m", "e",
      " ", "=", " ", "T", "i", "d", "e", " ", " ", "\n", "S", "e", "e", " ",
      "s", "h", "e", "l", "f", " ", "2", ".">>

\* 'Shelf two.\nproduct_name =\nTide'
SumValueNextLine ==
    <<"S", "h", "e", "l", "f", " ", "t", "w", "o", ".", "\n", "p", "r", "o",
      "d", "u", "c", "t", "_", "n", "a", "m", "e", " ", "=", "\n", "T", "i",
      "d", "e">>

\* 'Tide is on the top shelf.\nProduct_Name = Tide'
SumCapKey ==
    <<"T", "i", "d", "e", " ", "i", "s", " ", "o", "n", " ", "t", "h", "e",
      " ", "t", "o", "p", " ", "s", "h", "e", "l", "f", ".", "\n", "P", "r",
      "o", "d", "u", "c", "t", "_", "N", "a", "m", "e", " ", "=", " ", "T",
      "i", "d", "e">>

StoredSummaries ==
    ProductSummaries \cup {SumBlankLines, SumMarkerMid, SumValueNextLine, SumCapKey}

\* The largest number of products a search returns.
MaxCards == 3

\* Product dictionaries as enhanced_product_search returns them.
Products ==
    {[title |-> "Tide 1kg", price |-> 199], [title |-> "Ariel 1kg", price |-> 249]}

\* The new format: a list of products, in the order of the search.
ListResults ==
    {[type |-> "list", items |-> items] :
        items \in UNION {[1..n -> Products] : n \in 0..MaxCards}}

\* The legacy format: a dictionary, given as its items in order; an item
\* whose key starts with the trophy is the best deal, the others are
\* products.
LegacyItems == [trophy : BOOLEAN, product : Products]

LegacyResults ==
    {[type |-> "dict", items |-> items] :
        items \in UNION {[1..n -> LegacyItems] : n \in 0..2}}

\* The values enhanced_results can have at streamlit_app.py line 489.
SearchResults == ListResults \cup LegacyResults

\* More exceptions for the except clause of extract_products_from_image
\* (lines 93-106): type names and messages, in every combination.

\* 'RepresenterError'
TyRepresenterError ==
    <<"R", "e", "p", "r", "e", "s", "e", "n", "t", "e", "r", "E", "r", "r",
      "o", "r">>

\* 'Connection to host timed out. (connect timeout=30)'
MsgConnectTimeout ==
    <<"C", "o", "n", "n", "e", "c", "t", "i", "o", "n", " ", "t", "o", " ",
      "h", "o", "s", "t", " ", "t", "i", "m", "e", "d", " ", "o", "u", "t",
      ".", " ", "(", "c", "o", "n", "n", "e", "c", "t", " ", "t", "i", "m",
      "e", "o", "u", "t", "=", "3", "0", ")">>

\* 'Network is unreachable'
MsgNetworkUnreachable ==
    <<"N", "e", "t", "w", "o", "r", "k", " ", "i", "s", " ", "u", "n", "r",
      "e", "a", "c", "h", "a", "b", "l", "e">>

\* 'TIMEOUT expired'
MsgUpperTimeout ==
    <<"T", "I", "M", "E", "O", "U", "T", " ", "e", "x", "p", "i", "r", "e",
      "d">>

\* 'Cannot connect to host'
MsgCannotConnect ==
    <<"C", "a", "n", "n", "o", "t", " ", "c", "o", "n", "n", "e", "c", "t",
      " ", "t", "o", " ", "h", "o", "s", "t">>

\* 'cannot represent an object'
MsgCannotRepresent ==
    <<"c", "a", "n", "n", "o", "t", " ", "r", "e", "p", "r", "e", "s", "e",
      "n", "t", " ", "a", "n", " ", "o", "b", "j", "e", "c", "t">>

FailureTypes ==
    {TyAPITimeoutError, TyReadTimeout, TyAPIConnectionError, TyFileNotFoundError,
     TyRateLimitError, TyRepresenterError}

FailureMessages ==
    {MsgRequestTimedOut, MsgReadTimeout, MsgConnectionError, MsgNoSuchFile,
     MsgRateLimit, MsgConnectTimeout, MsgNetworkUnreachable, MsgUpperTimeout,
     MsgCannotConnect, MsgCannotRepresent}

\* The ways the per-frame call can fail: any exception raised by the request,
\* and the request not made for want of credentials.
FailuresFor(credentials) ==
    IF credentials
    THEN {Failure("failure", "api", type, message) :
              type \in FailureTypes, message \in FailureMessages}
    ELSE {NotCalled}

\* The largest frame index of a failed call considered on its own.
MaxFailedFrame == 2

\* ------------------------------------------------------------------------
\* google_vision.py: inputs
\* ------------------------------------------------------------------------

\* 'IndexError'
TyIndexError ==
    <<"I", "n", "d", "e", "x", "E", "r", "r", "o", "r">>

\* 'ImportError'
TyImportError ==
    <<"I", "m", "p", "o", "r", "t", "E", "r", "r", "o", "r">>

\* 'AttributeError'
TyAttributeError ==
    <<"A", "t", "t", "r", "i", "b", "u", "t", "e", "E", "r", "r", "o", "r">>

\* 'test_image.jpg'
PathTestImage ==
    <<"t", "e", "s", "t", "_", "i", "m", "a", "g", "e", ".", "j", "p", "g">>

\* 'Bottle'
NameBottle ==
    <<"B", "o", "t", "t", "l", "e">>

\* 'Shelf'
NameShelf ==
    <<"S", "h", "e", "l", "f">>

\* 'ARIEL and Tide on offer'
TextTideAriel ==
    <<"A", "R", "I", "E", "L", " ", "a", "n", "d", " ", "T", "i", "d", "e",
      " ", "o", "n", " ", "o", "f", "f", "e", "r">>

\* 'Tide Pods'
NameTidePods ==
    <<"T", "i", "d", "e", " ", "P", "o", "d", "s">>

\* 'Tide detergent box\nAriel\nLux soap bar'
AnsProductList ==
    <<"T", "i", "d", "e", " ", "d", "e", "t", "e", "r", "g", "e", "n", "t",
      " ", "b", "o", "x", "\n", "A", "r", "i", "e", "l", "\n", "L", "u", "x",
      " ", "s", "o", "a", "p", " ", "b", "a", "r">>

\* An answer of blanks only, which .strip() empties.
AnsBlank == <<" ", "\n">>

DetectorImages == {PathImage, PathTestImage}

\* responses[0] of the decoded JSON.
VisionResponse(results, objects, textAnnotations) ==
    [results |-> results, objects |-> objects, textAnnotations |-> textAnnotations]

\* Decoded JSON bodies of an answer with status 200.
VisionResponses ==
    {[has_responses |-> FALSE, responses |-> <<>>],
     [has_responses |-> TRUE, responses |-> <<>>],
     [has_responses |-> TRUE, responses |-> <<VisionResponse(<<>>, <<>>, <<>>)>>],
     [has_responses |-> TRUE,
      responses |-> <<VisionResponse(<<NameTidePods>>, <<NameBottle, NameShelf>>,
                                     <<TextTideAriel>>)>>]}

\* What the try body of detect_products_in_image meets: _encode_image or
\* requests.post raises, the answer has a status other than 200, its body
\* is no JSON, or it is one of the bodies above.
RequestOutcomes ==
    {[kind |-> k, status |-> 0, response |-> [has_responses |-> FALSE, responses |-> <<>>]] :
         k \in {"encode_error", "request_error"}}
    \cup {[kind |-> "answered", status |-> s,
           response |-> [has_responses |-> FALSE, responses |-> <<>>]] : s \in {403, 500}}
    \cup {[kind |-> "invalid_json", status |-> 200,
           response |-> [has_responses |-> FALSE, responses |-> <<>>]]}
    \cup {[kind |-> "answered", status |-> 200, response |-> r] : r \in VisionResponses}

\* What the call of extract_products_from_image in the fallback meets.
FallbackOutcomes(credentials) ==
    OutcomesFor(credentials)
        \cup (IF credentials THEN {Answer(AnsBlank), Answer(AnsProductList)} ELSE {})


\* ------------------------------------------------------------------------
\* extract_products_from_image (lines 28-106)
\* ------------------------------------------------------------------------

Returned(text) == [raised |-> FALSE, text |-> text, type |-> <<>>]

Raised(type) == [raised |-> TRUE, text |-> <<>>, type |-> type]

\* f"[Skipped frame {frame_number} due to timeout. Try again later.]"
TimeoutText(frame_number) == SkippedFrame \o Format(frame_number) \o DueToTimeout

\* f"[Skipped frame {frame_number} due to connection error. ...]"
ConnectionText(frame_number) == SkippedFrame \o Format(frame_number) \o DueToConnection

\* f"[Skipped frame {frame_number} due to error: {error_type}]"
OtherErrorText(frame_number, error_type) ==
    SkippedFrame \o Format(frame_number) \o DueToError \o error_type \o CloseBracket

\* The except clause with the connectivity words looked for first.
HandleExceptionConnectionFirst(frame_number, error_type, error_message) ==
    IF \E net_err \in NetErrWords : Contains(Lower(error_message), net_err)
    THEN Returned(ConnectionText(frame_number))
    ELSE IF Contains(Lower(error_message), KwTimeout)
    THEN Returned(TimeoutText(frame_number))
    ELSE Returned(OtherErrorText(frame_number, error_type))

\* The except clause with its last branch re-raising instead of returning.
HandleExceptionReraise(frame_number, error_type, error_message) ==
    IF Contains(Lower(error_message), KwTimeout)
    THEN Returned(TimeoutText(frame_number))
    ELSE IF \E net_err \in NetErrWords : Contains(Lower(error_message), net_err)
    THEN Returned(ConnectionText(frame_number))
    ELSE Raised(error_type)

\* The except clause, lines 93-106.
HandleException(frame_number, error_type, error_message) ==
    IF Contains(Lower(error_message), KwTimeout)
    THEN Returned(TimeoutText(frame_number))
    ELSE IF \E net_err \in NetErrWords : Contains(Lower(error_message), net_err)
    THEN Returned(ConnectionText(frame_number))
    ELSE Returned(OtherErrorText(frame_number, error_type))

\* The whole function: encode_image, the credentials check, the request,
\* and the except clause around all of them.
ExtractProductsFromImage(outcome, frame_number, credentials) ==
    IF outcome.at = "encode" /\ outcome.kind # "ok"
    THEN HandleException(frame_number, outcome.type, outcome.message)
    ELSE IF ~credentials
    THEN Returned(CredentialsMissing)
    ELSE IF outcome.kind = "ok"
    THEN Returned(Strip(outcome.content))
    ELSE HandleException(frame_number, outcome.type, outcome.message)

\* ------------------------------------------------------------------------
\* analyze_video_for_query (lines 108-224): the pure parts
\* ------------------------------------------------------------------------

\* Sampling that starts one frame late.
IsSampledOffByOne(frame_index, frame_interval) ==
    (frame_index + 1) % frame_interval = 0

\* frame_index % frame_interval == 0, line 122
IsSampled(frame_index, frame_interval) == frame_index % frame_interval = 0

\* int((frame_index / fps) * 1000), line 127, for fps > 0
TimestampMs(frame_index, fps) == DTrunc(DMul(DDivNat(frame_index, fps), D1000))

\* (total_frames / fps) * 1000 * 0.9, lines 151-152, for fps > 0
EndThresholdMs(total_frames, fps) == DMul(DMul(DDivNat(total_frames, fps), D1000), D09)

\* keywords_present, lines 144-146
KeywordsPresent(response_clean) ==
    \E keyword \in PresenceKeywords : Contains(response_clean, keyword)

\* uncertain_phrases, lines 147-148
UncertainPhrasesFound(response_clean) ==
    \E phrase \in UncertainPhrases : Contains(response_clean, phrase)

\* The classification without the uncertainty test.
IsPositiveEvidenceNoNegation(response, timestamp_ms, total_frames, fps) ==
    LET response_clean == Lower(response)
    IN  /\ KeywordsPresent(response_clean)
        /\ \/ IntLessDouble(timestamp_ms, EndThresholdMs(total_frames, fps))
           \/ ~Contains(response_clean, KwEnd)

\* The condition under which line 156 appends timestamp_ms, lines 141-155.
IsPositiveEvidence(response, timestamp_ms, total_frames, fps) ==
    LET response_clean == Lower(response)
    IN  /\ KeywordsPresent(response_clean)
        /\ ~UncertainPhrasesFound(response_clean)
        /\ \/ IntLessDouble(timestamp_ms, EndThresholdMs(total_frames, fps))
           \/ ~Contains(response_clean, KwEnd)

\* A classification that skips a timestamp the list already holds.
ClassifyStepDedup(product_timestamps, response, timestamp_ms, total_frames, fps) ==
    IF IsPositiveEvidence(response, timestamp_ms, total_frames, fps)
           /\ \A n \in 1..Len(product_timestamps) : product_timestamps[n] # timestamp_ms
    THEN Append(product_timestamps, timestamp_ms)
    ELSE product_timestamps

\* Lines 154-156: the list after the classification of one response.
ClassifyStep(product_timestamps, response, timestamp_ms, total_frames, fps) ==
    IF IsPositiveEvidence(response, timestamp_ms, total_frames, fps)
    THEN Append(product_timestamps, timestamp_ms)
    ELSE product_timestamps

\* f"<U+1F5BC> Frame {frame_index} ({timestamp_ms} ms):\n{response}", line 136
FrameEntry(frame_index, timestamp_ms, response) ==
    FramePrefix \o IntToStr(frame_index) \o OpenParen \o IntToStr(timestamp_ms)
        \o MsSuffix \o response


\* The separator of line 164: a blank line between two entries.
BlankLine == <<"\n", "\n">>

RECURSIVE Join(_, _)
\* sep.join(items)
Join(sep, items) ==
    IF items = <<>> THEN <<>>
    ELSE IF Len(items) = 1 THEN items[1]
    ELSE items[1] \o sep \o Join(sep, Tail(items))

\* An evidence document whose entries are separated by one line break only.
CombinedTextSingleBreak(frame_responses) == Join(<<"\n">>, frame_responses)

\* combined_text = "\n\n".join(frame_responses), line 164
CombinedText(frame_responses) == Join(BlankLine, frame_responses)

\* Lines 197-198 without .lower().
FinalTimestampsCaseSensitive(product_timestamps, base_summary) ==
    IF product_timestamps = <<>> \/ Contains(base_summary, UnNotVisible)
    THEN <<>>
    ELSE product_timestamps

\* A final list that keeps only the first timestamp collected.
FinalTimestampsFirstOnly(product_timestamps, base_summary) ==
    IF product_timestamps = <<>> \/ Contains(Lower(base_summary), UnNotVisible)
    THEN <<>>
    ELSE <<product_timestamps[1]>>

\* Lines 197-198.
FinalTimestamps(product_timestamps, base_summary) ==
    IF product_timestamps = <<>> \/ Contains(Lower(base_summary), UnNotVisible)
    THEN <<>>
    ELSE product_timestamps

\* Lines 32-37: the timestamp the prompt names; the prompt names none when
\* no frame number is given or the rate is 0.
PromptTimestampMs(frame_number, fps) ==
    IF frame_number # None /\ fps # 0
    THEN TimestampMs(frame_number, fps)
    ELSE None

\* video_path.lower().endswith((".jpg", ".jpeg", ".png")), line 199
IsImagePath(video_path) ==
    \E suffix \in ImageSuffixes : EndsWith(Lower(video_path), suffix)

\* 'product_name'
MarkerKey ==
    <<"p", "r", "o", "d", "u", "c", "t", "_", "n", "a", "m", "e">>

\* 'unknown'
Unknown ==
    <<"u", "n", "k", "n", "o", "w", "n">>


\* app.utils.product_extractor.extract_product_name: the value of the first
\* "product_name = <value>" marker (key in any letter case, value trimmed,
\* up to the end of the line), "unknown" when there is no marker or its
\* value is empty.
ValueAfterKey(text, i) ==
    LET after  == SubSeq(text, i + Len(MarkerKey), Len(text))
        eq     == CHOOSE j \in 1..(Len(after) + 1) : j > Len(after) \/ after[j] # " "
        stop   == CHOOSE j \in eq..(Len(after) + 1) : j > Len(after) \/ after[j] = "\n"
    IN  IF eq <= Len(after) /\ after[eq] = "="
        THEN Strip(SubSeq(after, eq + 1, stop - 1))
        ELSE <<>>

ExtractProductName(text) ==
    LET low   == Lower(text)
        hits  == {i \in 1..(Len(text) - Len(MarkerKey) + 1) :
                     low[i] = MarkerKey[1]
                         /\ SubSeq(low, i, i + Len(MarkerKey) - 1) = MarkerKey}
        value == ValueAfterKey(text, CHOOSE i \in hits : \A j \in hits : i <= j)
    IN  IF hits = {} THEN Unknown
        ELSE IF value = <<>> THEN Unknown
        ELSE value

\* A product name for which only the lower-case "unknown" counts as unknown.
ReturnValueCaseSensitive(base_summary, product_timestamps, user_question, evaluation_result) ==
    LET from_summary == ExtractProductName(base_summary)
        product_name == IF from_summary = <<>> \/ from_summary = Unknown
                        THEN ExtractProductName(user_question)
                        ELSE from_summary
    IN  [final_summary |-> base_summary,
         timestamps    |-> product_timestamps,
         product_name  |-> product_name]

\* A return value that lets the evaluation text clear the timestamps.
ReturnValueGated(base_summary, product_timestamps, user_question, evaluation_result) ==
    [final_summary |-> base_summary,
     timestamps    |-> IF Contains(Lower(evaluation_result), UnNotVisible)
                       THEN <<>> ELSE product_timestamps,
     product_name  |-> IF ExtractProductName(base_summary) = Unknown
                       THEN ExtractProductName(user_question)
                       ELSE ExtractProductName(base_summary)]

\* Lines 213-224 (and 201-212 for a still image): what is returned once the
\* evaluation has answered.
ReturnValue(base_summary, product_timestamps, user_question, evaluation_result) ==
    LET from_summary == ExtractProductName(base_summary)
        product_name == IF from_summary = <<>> \/ Lower(from_summary) = Unknown
                        THEN ExtractProductName(user_question)
                        ELSE from_summary
    IN  [final_summary |-> base_summary,
         timestamps    |-> product_timestamps,
         product_name  |-> product_name]

\* A call of extract_product_name, as an entry of the call history.
ExtractorCall(text) ==
    [call |-> "extract_product_name", frame |-> None, text |-> text,
     prompt_ms |-> None]

\* Lines 216-218 (204-206): the calls of extract_product_name, in order.
ExtractorCalls(base_summary, user_question) ==
    LET from_summary == ExtractProductName(base_summary)
    IN  IF from_summary = <<>> \/ Lower(from_summary) = Unknown
        THEN <<ExtractorCall(base_summary), ExtractorCall(user_question)>>
        ELSE <<ExtractorCall(base_summary)>>

\* ------------------------------------------------------------------------
\* streamlit_app.py: the pure parts of the summary and product sections
\* ------------------------------------------------------------------------

\* The first index from i on that holds no whitespace (\s*, greedy), or
\* Len(text) + 1.
SkipSpaces(text, i) ==
    CHOOSE j \in i..(Len(text) + 1) :
        /\ j > Len(text) \/ text[j] \notin Whitespace
        /\ \A k \in i..(j - 1) : text[k] \in Whitespace

\* The first index from i on that holds a line break ([^\n]*, greedy), or
\* Len(text) + 1.
LineEnd(text, i) ==
    CHOOSE j \in i..(Len(text) + 1) :
        /\ j > Len(text) \/ text[j] = "\n"
        /\ \A k \in i..(j - 1) : text[k] # "\n"

\* The index after a match of product_name\s*=\s*[^\n]* that starts at i,
\* or 0 when there is none. No flag is given to re.sub: the key is matched
\* as written, in lower case.
MarkerMatchEnd(text, i) ==
    LET after == i + Len(MarkerKey)
        eq    == SkipSpaces(text, after)
    IN  IF after - 1 <= Len(text) /\ SubSeq(text, i, after - 1) = MarkerKey
            /\ eq <= Len(text) /\ text[eq] = "="
        THEN LineEnd(text, SkipSpaces(text, eq + 1))
        ELSE 0

\* The index after a match of the pattern that starts at i, or 0:
\*   "line_marker"  \n\s*product_name\s*=\s*[^\n]*   (line 276)
\*   "marker"       product_name\s*=\s*[^\n]*        (line 278)
\*   "blank_lines"  \n\s*\n                          (line 280)
\* In the last pattern \s* gives back characters up to the last line break
\* of the whitespace that follows the first one.
MatchEnd(pattern, text, i) ==
    IF pattern = "marker" THEN MarkerMatchEnd(text, i)
    ELSE IF text[i] # "\n" THEN 0
    ELSE IF pattern = "line_marker"
    THEN LET start == SkipSpaces(text, i + 1)
         IN  IF start <= Len(text) /\ text[start] = MarkerKey[1]
             THEN MarkerMatchEnd(text, start) ELSE 0
    ELSE LET stop   == SkipSpaces(text, i + 1)
             breaks == {j \in (i + 1)..(stop - 1) : text[j] = "\n"}
         IN  IF breaks = {} THEN 0
             ELSE (CHOOSE j \in breaks : \A k \in breaks : k <= j) + 1

\* The characters a match of the pattern can start with.
FirstChars(pattern) == IF pattern = "marker" THEN {MarkerKey[1]} ELSE {"\n"}

RECURSIVE ReSub(_, _, _)
\* re.sub(pattern, replacement, text): the matches, found from left to right
\* and not overlapping, are replaced.
ReSub(pattern, replacement, text) ==
    LET starts == {i \in 1..Len(text) :
                      text[i] \in FirstChars(pattern) /\ MatchEnd(pattern, text, i) # 0}
        first  == CHOOSE i \in starts : \A k \in starts : i <= k
        stop   == MatchEnd(pattern, text, first)
    IN  IF starts = {} THEN text
        ELSE SubSeq(text, 1, first - 1) \o replacement
                 \o ReSub(pattern, replacement, SubSeq(text, stop, Len(text)))

\* Lines 273-280: the summary as it is displayed.
CleanSummary(summary) ==
    Strip(ReSub("blank_lines", <<"\n">>,
                ReSub("marker", <<>>, ReSub("line_marker", <<>>, summary))))

\* product_data of one card with the rank given to ProductCard.create_card.
Card(product_data, rank) == [product |-> product_data, rank |-> rank]

\* Lines 500-532: a result in the legacy dictionary format, as its items in
\* order; an item is the best-deal entry (key starting with the trophy) or a
\* product, already a dictionary or converted from old-format text.
LegacyCards(items) ==
    SelectSeq(items, LAMBDA item : ~item.trophy)

LegacyBestDeal(items) ==
    LET trophies == {n \in 1..Len(items) : items[n].trophy}
    IN  IF trophies = {} THEN <<>>
        ELSE <<items[CHOOSE n \in trophies : \A k \in trophies : k <= n].product>>

\* A product section that numbers the cards from 0.
RenderProductsFromZero(enhanced_results) ==
    LET product_cards ==
            IF enhanced_results.type = "list" THEN enhanced_results.items
            ELSE [n \in 1..Len(LegacyCards(enhanced_results.items)) |->
                      LegacyCards(enhanced_results.items)[n].product]
    IN  [shown   |-> TRUE,
         banner  |-> IF product_cards # <<>> THEN <<product_cards[1]>> ELSE <<>>,
         cards   |-> [n \in 1..Len(product_cards) |-> Card(product_cards[n], n - 1)],
         warning |-> product_cards = <<>>,
         enhanced_results |-> enhanced_results]

\* Lines 490-561: the product section for the value of enhanced_results.
\* banner holds the product of the best-deal banner, if one is shown, and
\* warning says that the 'No products found' warning is shown.
RenderProducts(enhanced_results) ==
    LET product_cards ==
            IF enhanced_results.type = "list" THEN enhanced_results.items
            ELSE [n \in 1..Len(LegacyCards(enhanced_results.items)) |->
                      LegacyCards(enhanced_results.items)[n].product]
        best_deal_data ==
            IF enhanced_results.type = "list"
            THEN IF product_cards # <<>> THEN <<product_cards[1]>> ELSE <<>>
            ELSE LegacyBestDeal(enhanced_results.items)
    IN  IF product_cards # <<>>
        THEN [shown   |-> TRUE,
              banner  |-> IF best_deal_data # <<>> THEN best_deal_data
                          ELSE <<product_cards[1]>>,
              cards   |-> [n \in 1..Len(product_cards) |-> Card(product_cards[n], n)],
              warning |-> FALSE,
              enhanced_results |-> enhanced_results]
        ELSE [shown |-> TRUE, banner |-> <<>>, cards |-> <<>>, warning |-> TRUE,
              enhanced_results |-> enhanced_results]
\* ------------------------------------------------------------------------
\* google_vision.py: GoogleVisionProductDetector, the pure parts
\* ------------------------------------------------------------------------

\* product_keywords of _create_product_from_object (lines 151-154).

ProductKeywords ==
    {<<"b", "o", "t", "t", "l", "e">>,
     <<"b", "o", "x">>,
     <<"p", "a", "c", "k", "a", "g", "e">>,
     <<"c", "o", "n", "t", "a", "i", "n", "e", "r">>,
     <<"f", "o", "o", "d">>,
     <<"d", "r", "i", "n", "k">>,
     <<"c", "o", "s", "m", "e", "t", "i", "c">>,
     <<"d", "e", "t", "e", "r", "g", "e", "n", "t">>,
     <<"s", "o", "a", "p">>,
     <<"s", "h", "a", "m", "p", "o", "o">>,
     <<"m", "e", "d", "i", "c", "i", "n", "e">>}

\* The keys of brand_patterns (lines 180-196), in order.
BrandPatterns ==
    <<<<"t", "i", "d", "e">>,
      <<"s", "u", "r", "f">>,
      <<"a", "r", "i", "e", "l">>,
      <<"v", "i", "m">>,
      <<"d", "e", "t", "t", "o", "l">>,
      <<"l", "u", "x">>,
      <<"d", "o", "v", "e">>,
      <<"p", "a", "n", "t", "e", "n", "e">>,
      <<"h", "e", "a", "d", " ", "&", " ", "s", "h", "o", "u", "l", "d", "e", "r", "s">>,
      <<"c", "o", "l", "g", "a", "t", "e">>,
      <<"o", "r", "a", "l", "-", "b">>,
      <<"m", "a", "g", "g", "i">>,
      <<"n", "e", "s", "t", "l", "e">>,
      <<"c", "o", "c", "a", "-", "c", "o", "l", "a">>,
      <<"p", "e", "p", "s", "i">>>>

\* A ProductDetection, by where it comes from and the name, or the brand, it
\* is made of.
Detection(source, of) == [source |-> source, of |-> of]

\* What a try body, or a method, comes to: products returned, or an
\* exception that leaves it; parsed says whether _parse_text_to_products
\* was called.
Outcome(products, parsed) ==
    [raised |-> FALSE, type |-> <<>>, products |-> products, parsed |-> parsed]

Leaves(type) ==
    [raised |-> TRUE, type |-> type, products |-> <<>>, parsed |-> FALSE]

\* Lines 129-143, for a result that is a mapping whose product has the
\* displayName given.
CreateProductFromSearchResult(display_name) ==
    <<Detection("search", display_name)>>

\* Lines 145-167: an object counts when its lower-cased name contains a
\* product keyword.
CreateProductFromObject(name) ==
    IF \E keyword \in ProductKeywords : Contains(Lower(name), keyword)
    THEN <<Detection("object", name)>>
    ELSE <<>>

RECURSIVE Concat(_)
\* The concatenation of a sequence of lists.
Concat(lists) ==
    IF lists = <<>> THEN <<>> ELSE Head(lists) \o Concat(Tail(lists))

\* Lines 169-209: one product for every brand that the lower-cased first
\* text annotation contains, in the order of brand_patterns.
ExtractProductsFromText(vision_response) ==
    IF vision_response.textAnnotations = <<>> THEN <<>>
    ELSE LET full_text == Lower(vision_response.textAnnotations[1])
         IN  Concat([n \in 1..Len(BrandPatterns) |->
                        IF Contains(full_text, BrandPatterns[n])
                        THEN <<Detection("text", BrandPatterns[n])>>
                        ELSE <<>>])

\* Lines 97-127.  response is the decoded JSON: with or without the key
\* "responses"; an empty list under that key makes responses[0] raise.
ParseVisionResponse(response) ==
    IF ~response.has_responses THEN Outcome(<<>>, FALSE)
    ELSE IF response.responses = <<>> THEN Leaves(TyIndexError)
    ELSE LET vision_response == response.responses[1]
             searched == Concat([n \in 1..Len(vision_response.results) |->
                             CreateProductFromSearchResult(vision_response.results[n])])
             objects  == Concat([n \in 1..Len(vision_response.objects) |->
                             CreateProductFromObject(vision_response.objects[n])])
         IN  Outcome(searched \o objects \o ExtractProductsFromText(vision_response),
                      FALSE)

RECURSIVE SplitLines(_)
\* text.split('\n')
SplitLines(text) ==
    IF \A i \in 1..Len(text) : text[i] # "\n" THEN <<text>>
    ELSE LET cut == CHOOSE i \in 1..Len(text) :
                        text[i] = "\n" /\ \A j \in 1..(i - 1) : text[j] # "\n"
         IN  <<SubSeq(text, 1, cut - 1)>>
                 \o SplitLines(SubSeq(text, cut + 1, Len(text)))

\* line.split()[0] for a stripped, non-empty line
FirstWord(line) ==
    LET blanks == {i \in 1..Len(line) : line[i] \in Whitespace}
    IN  IF blanks = {} THEN line
        ELSE SubSeq(line, 1, (CHOOSE i \in blanks : \A j \in blanks : i <= j) - 1)

\* Lines 257-278: one product for each stripped line of more than five
\* characters and at least two words, the first five of them.
ParseTextToProducts(text) ==
    LET lines == SplitLines(text)
        products == Concat([n \in 1..Len(lines) |->
                        LET line == Strip(lines[n])
                        IN  IF Len(line) > 5
                                  /\ \E i \in 1..Len(line) : line[i] \in Whitespace
                            THEN <<[source |-> "text_analysis", of |-> line,
                                    brand |-> FirstWord(line)]>>
                            ELSE <<>>])
    IN  SubSeq(products, 1, IF Len(products) < 5 THEN Len(products) ELSE 5)

\* A value of Python: a str, or a mapping with the key "summary".
PyStr(text) == [kind |-> "str", text |-> text]

PyDict(summary) == [kind |-> "dict", text |-> summary]

\* An analysis that answers with a mapping holding its text as "summary".
AnalysisValueAsMapping(analysis) == PyDict(analysis.text)

\* analyze.py lines 91-106: every return of extract_products_from_image
\* gives a str.
AnalysisValue(analysis) == PyStr(analysis.text)

\* Lines 240-250, the try body of _fallback_product_detection: the import,
\* the call, and the test 'result and result.get("summary")'.  An empty str
\* is false; for any other str .get raises AttributeError.
FallbackBody(import_ok, analysis) ==
    IF ~import_ok THEN Leaves(TyImportError)
    ELSE IF analysis.raised THEN Leaves(analysis.type)
    ELSE LET result == AnalysisValue(analysis)
         IN  IF result.kind = "str"
             THEN IF result.text = <<>> THEN Outcome(<<>>, FALSE)
                  ELSE Leaves(TyAttributeError)
             ELSE IF result.text = <<>> THEN Outcome(<<>>, FALSE)
                  ELSE Outcome(ParseTextToProducts(result.text), TRUE)

\* A fallback without its except clause.
FallbackProductDetectionUncaught(import_ok, analysis) ==
    FallbackBody(import_ok, analysis)

\* Lines 236-255: _fallback_product_detection.  The except clause prints the
\* exception; line 255 returns [] after it, and when the test of line 245
\* fails.
FallbackProductDetection(import_ok, analysis) ==
    LET body == FallbackBody(import_ok, analysis)
    IN  IF body.raised
        THEN [raised |-> FALSE, type |-> body.type, products |-> <<>>,
              parsed |-> body.parsed]
        ELSE body


\* ------------------------------------------------------------------------
\* analyze_video_for_query as a state machine
\* ------------------------------------------------------------------------

VARIABLES
    video_path,          \* argument
    user_question,       \* argument
    frame_interval,      \* argument
    credentials,         \* all four AZURE_OPENAI_* values are set (lines 12-15)
    cap,                 \* the source: opened, frames it decodes to, reported fps and count
    pc,                  \* position in analyze_video_for_query
    fps,                 \* line 110
    total_frames,        \* line 111
    frame_index,         \* line 115
    frame_responses,     \* line 113
    product_timestamps,  \* line 114
    timestamp_ms,        \* line 127
    temp_files,          \* temporary .jpg files that exist, by frame index
    base_summary,        \* line 194
    evaluation_result,   \* line 213
    result,              \* the returned dictionary
    raised,              \* the exception that left the function, and where
    analyses,            \* history: one record per call of line 129
    session_state,       \* streamlit_app.py: st.session_state
    page,                \* streamlit_app.py: what the script run has displayed
    detection,           \* google_vision.py: a call of the detector, its position
                         \* and what it returned
    calls                \* history: the calls made, in order, with the text given:
                         \* the evidence document (combined_text) to the summary
                         \* and evaluation calls, the argument to the extractor

vars ==
    <<video_path, user_question, frame_interval, credentials, cap, pc, fps,
      total_frames, frame_index, frame_responses, product_timestamps,
      timestamp_ms, temp_files, base_summary, evaluation_result, result,
      raised, analyses, calls, session_state, page, detection>>

\* The dashboard's variables.
dashboard == <<session_state, page>>

args == <<video_path, user_question, frame_interval, credentials, cap>>

\* None where a text can stand (st.session_state.file_path): a sequence that
\* is no text, so that it differs from the empty string.
NoneText == <<"None">>

\* streamlit_app.py lines 86-89: the session of a first script run; the key
\* "result" is not set yet.  file_type is "video", "image" or "none" (None).
\* analysed_path is history: the file_path the stored summary and timestamps
\* were computed from.
NewSession ==
    [file_path |-> NoneText, file_type |-> "none", timestamps |-> <<>>,
     summary |-> <<>>, file_base64 |-> <<>>, has_result |-> FALSE,
     result |-> [final_summary |-> <<>>, timestamps |-> <<>>, product_name |-> <<>>],
     analysed_path |-> NoneText]

\* google_vision.py: no call of the detector.
NoDetection ==
    [pc |-> "none", image_path |-> <<>>, entry |-> "none", cause |-> "none",
     analysis |-> "none", parsed |-> FALSE, raised |-> FALSE, products |-> <<>>]

\* Nothing in the summary section.
NoSummaryShown == [shown |-> FALSE, text |-> <<>>]

\* Nothing in the product section.
NoProductsShown ==
    [shown |-> FALSE, banner |-> <<>>, cards |-> <<>>, warning |-> FALSE,
     enhanced_results |-> [type |-> "none", items |-> <<>>]]

\* Nothing in the timeline section.
NoTimelineShown ==
    [shown |-> FALSE, video |-> NoneText, markers |-> <<>>,
     analysed_path |-> NoneText]

\* A script run that has displayed no section and no message.
BlankPage ==
    [summary |-> NoSummaryShown, products |-> NoProductsShown,
     timeline |-> NoTimelineShown, notice |-> "none"]

\* Number of indices below frames that line 122 selects.
SampleCount(frames, interval) == (frames + interval - 1) \div interval

NoResult == [final_summary |-> <<>>, timestamps |-> <<>>, product_name |-> <<>>]

NoException == [type |-> <<>>, stage |-> "none"]

\* A source that did not open decodes to nothing and reports 0.0 for every
\* property; one that opened reports a rate and, as its frame count, the
\* number of frames it decodes to.
Sources ==
    {[opened |-> FALSE, frames |-> 0, fps |-> 0, count |-> 0]}
        \cup {[opened |-> TRUE, frames |-> n, fps |-> f, count |-> n] :
                 n \in 0..MaxFrames, f \in FpsValues}

Init ==
    /\ video_path \in VideoPaths
    /\ user_question \in Questions
    /\ frame_interval \in 1..MaxFrames
    /\ credentials \in BOOLEAN
    /\ cap \in Sources
    /\ SampleCount(cap.frames, frame_interval) <= MaxSamples
    /\ pc = "start"
    /\ fps = 0
    /\ total_frames = 0
    /\ frame_index = 0
    /\ frame_responses = <<>>
    /\ product_timestamps = <<>>
    /\ timestamp_ms = 0
    /\ temp_files = {}
    /\ base_summary = <<>>
    /\ evaluation_result = <<>>
    /\ result = NoResult
    /\ raised = NoException
    /\ analyses = <<>>
    /\ calls = <<>>
    /\ detection = NoDetection
    /\ session_state = NewSession
    /\ page = BlankPage

\* An opening that raises when the source cannot be opened.
OpenOrFail ==
    /\ pc = "start"
    /\ fps' = cap.fps
    /\ total_frames' = cap.count
    /\ frame_responses' = <<>>
    /\ product_timestamps' = <<>>
    /\ frame_index' = 0
    /\ pc' = IF cap.opened THEN "loop" ELSE "raised"
    /\ raised' = IF cap.opened THEN raised
                 ELSE [type |-> TyFileNotFoundError, stage |-> "open"]
    /\ UNCHANGED <<args, dashboard, detection, timestamp_ms, temp_files, base_summary,
                   evaluation_result, result, analyses, calls>>

\* Lines 109-115.
Open ==
    /\ pc = "start"
    /\ fps' = cap.fps
    /\ total_frames' = cap.count
    /\ frame_responses' = <<>>
    /\ product_timestamps' = <<>>
    /\ frame_index' = 0
    /\ pc' = "loop"
    /\ UNCHANGED <<args, dashboard, detection, timestamp_ms, temp_files, base_summary,
                   evaluation_result, result, raised, analyses, calls>>

\* cap.isOpened() and cap.read() succeed, lines 117-120.
FrameAvailable == cap.opened /\ frame_index < cap.frames

\* A loop end that starts the evaluation from the evidence without waiting
\* for the summary.
LoopExitToEvaluation ==
    /\ pc = "loop"
    /\ ~FrameAvailable
    /\ pc' = "evaluate"
    /\ UNCHANGED <<args, dashboard, detection, fps, total_frames, frame_index, frame_responses,
                   product_timestamps, timestamp_ms, temp_files, base_summary,
                   evaluation_result, result, raised, analyses, calls>>

\* Lines 117-120 and 162-180: the loop ends, the source is released and the
\* summary prompt is built.
LoopExit ==
    /\ pc = "loop"
    /\ ~FrameAvailable
    /\ pc' = "summary"
    /\ UNCHANGED <<args, dashboard, detection, fps, total_frames, frame_index, frame_responses,
                   product_timestamps, timestamp_ms, temp_files, base_summary,
                   evaluation_result, result, raised, analyses, calls>>

\* Lines 118-122 and 160: a frame that is not sampled.
SkipFrame ==
    /\ pc = "loop"
    /\ FrameAvailable
    /\ ~IsSampled(frame_index, frame_interval)
    /\ frame_index' = frame_index + 1
    /\ UNCHANGED <<args, dashboard, detection, pc, fps, total_frames, frame_responses,
                   product_timestamps, timestamp_ms, temp_files, base_summary,
                   evaluation_result, result, raised, analyses, calls>>

\* Lines 118-127: a sampled frame is written to a temporary file and its
\* timestamp computed; frame_index / fps raises ZeroDivisionError for 0.0.
SampleFrame ==
    /\ pc = "loop"
    /\ FrameAvailable
    /\ IsSampled(frame_index, frame_interval)
    /\ temp_files' = temp_files \cup {frame_index}
    /\ IF fps = 0
       THEN /\ pc' = "raised"
            /\ raised' = [type |-> TyZeroDivisionError, stage |-> "frame"]
            /\ UNCHANGED timestamp_ms
       ELSE /\ pc' = "vision"
            /\ timestamp_ms' = TimestampMs(frame_index, fps)
            /\ UNCHANGED raised
    /\ UNCHANGED <<args, dashboard, detection, fps, total_frames, frame_index, frame_responses,
                   product_timestamps, base_summary, evaluation_result, result,
                   analyses, calls>>

\* Lines 129-160: the per-frame call, the evidence entry, the classification,
\* the removal of the temporary file and the step to the next index.
AnalyzeFrame ==
    /\ pc = "vision"
    /\ \E outcome \in OutcomesFor(credentials) :
         LET r == ExtractProductsFromImage(outcome, frame_index, credentials)
             positive == IsPositiveEvidence(r.text, timestamp_ms, total_frames, fps)
         IN  /\ calls' = Append(calls, [call |-> "vision", frame |-> frame_index, text |-> <<>>,
                                     prompt_ms |-> PromptTimestampMs(frame_index, fps)])
             /\ IF r.raised
                THEN /\ pc' = "raised"
                     /\ raised' = [type |-> r.type, stage |-> "vision"]
                     /\ UNCHANGED <<frame_index, frame_responses, product_timestamps,
                                    temp_files, analyses>>
                ELSE /\ frame_responses' =
                            Append(frame_responses, FrameEntry(frame_index, timestamp_ms, r.text))
                     /\ product_timestamps' =
                            ClassifyStep(product_timestamps, r.text, timestamp_ms,
                                         total_frames, fps)
                     /\ temp_files' = temp_files \ {frame_index}
                     /\ frame_index' = frame_index + 1
                     /\ analyses' = Append(analyses,
                            [frame |-> frame_index, timestamp_ms |-> timestamp_ms,
                             kind |-> outcome.kind, response |-> r.text,
                             appended |-> positive])
                     /\ pc' = "loop"
                     /\ UNCHANGED raised
    /\ UNCHANGED <<args, dashboard, detection, fps, total_frames, timestamp_ms, base_summary,
                   evaluation_result, result>>

\* Lines 182-199: the summary call, which no try statement encloses, and
\* the final timestamp list.
Summarize ==
    /\ pc = "summary"
    /\ calls' = Append(calls, [call |-> "summary", frame |-> None,
                             text |-> CombinedText(frame_responses),
                             prompt_ms |-> None])
    /\ \E outcome \in SummaryOutcomes :
         IF outcome.kind = "ok"
         THEN /\ base_summary' = Strip(outcome.content)
              /\ product_timestamps' = FinalTimestamps(product_timestamps, base_summary')
              /\ pc' = IF IsImagePath(video_path) THEN "image" ELSE "evaluate"
              /\ UNCHANGED raised
         ELSE /\ pc' = "raised"
              /\ raised' = [type |-> outcome.type, stage |-> "summary"]
              /\ UNCHANGED <<base_summary, product_timestamps>>
    /\ UNCHANGED <<args, dashboard, detection, fps, total_frames, frame_index, frame_responses,
                   timestamp_ms, temp_files, evaluation_result, result, analyses>>

\* Line 200: for a still-image path the function is called once more on the
\* path itself, without frame number; its result is not used.
ImageCall ==
    /\ pc = "image"
    /\ calls' = Append(calls, [call |-> "vision", frame |-> None, text |-> <<>>,
                             prompt_ms |-> PromptTimestampMs(None, None)])
    /\ \E outcome \in OutcomesFor(credentials) :
         LET r == ExtractProductsFromImage(outcome, None, credentials)
         IN  IF r.raised
             THEN /\ pc' = "raised"
                  /\ raised' = [type |-> r.type, stage |-> "vision"]
             ELSE /\ pc' = "evaluate"
                  /\ UNCHANGED raised
    /\ UNCHANGED <<args, dashboard, detection, fps, total_frames, frame_index, frame_responses,
                   product_timestamps, timestamp_ms, temp_files, base_summary,
                   evaluation_result, result, analyses>>

\* The call of evaluate_summary_accuracy at line 213 (201), as an entry of
\* the call history.
EvaluateCall ==
    [call |-> "evaluate", frame |-> None, text |-> CombinedText(frame_responses),
     prompt_ms |-> None]

\* Lines 201-212 and 213-224, with evaluate_summary_accuracy (lines 226-267),
\* whose call no try statement encloses.
Evaluate ==
    /\ pc = "evaluate"
    /\ \E outcome \in EvalOutcomes :
         IF outcome.kind = "ok"
         THEN /\ calls' = Append(calls, EvaluateCall)
                            \o ExtractorCalls(base_summary, user_question)
              /\ evaluation_result' = Strip(outcome.content)
              /\ result' = ReturnValue(base_summary, product_timestamps,
                                       user_question, evaluation_result')
              /\ pc' = "returned"
              /\ UNCHANGED raised
         ELSE /\ calls' = Append(calls, EvaluateCall)
              /\ pc' = "raised"
              /\ raised' = [type |-> outcome.type, stage |-> "evaluate"]
              /\ UNCHANGED <<evaluation_result, result>>
    /\ UNCHANGED <<args, dashboard, detection, fps, total_frames, frame_index, frame_responses,
                   product_timestamps, timestamp_ms, temp_files, base_summary,
                   analyses>>

Next ==
    \/ Open
    \/ LoopExit
    \/ SkipFrame
    \/ SampleFrame
    \/ AnalyzeFrame
    \/ Summarize
    \/ ImageCall
    \/ Evaluate

Spec == Init /\ [][Next]_vars

\* analyze_video_for_query runs to its end: a single thread executes it, so
\* a step that can be taken is taken.
SpecFair == Spec /\ WF_vars(Next)

\* ------------------------------------------------------------------------
\* The timestamps of two consecutive sampled frames, for frame indices
\* beyond those of the sources above
\* ------------------------------------------------------------------------

\* Frame frame_index of a source that has one more frame after it has been
\* read and is sampled; every frame is sampled.
InitTimestamp ==
    /\ frame_index \in 0..MaxIndex
    /\ fps \in StampRates
    /\ frame_interval = 1
    /\ cap = [opened |-> TRUE, frames |-> frame_index + 2, fps |-> fps,
              count |-> frame_index + 2]
    /\ total_frames = cap.count
    /\ video_path = PathVideo
    /\ user_question = QuestionTide
    /\ credentials = TRUE
    /\ pc = "sampled"
    /\ frame_responses = <<>>
    /\ product_timestamps = <<>>
    /\ timestamp_ms = 0
    /\ temp_files = {frame_index}
    /\ base_summary = <<>>
    /\ evaluation_result = <<>>
    /\ result = NoResult
    /\ raised = NoException
    /\ analyses = <<>>
    /\ calls = <<>>
    /\ detection = NoDetection
    /\ session_state = NewSession
    /\ page = BlankPage

\* Line 127, and lines 32-37 in the call of line 129: the timestamp of the
\* frame and the one the prompt of its call names.
TimestampStep ==
    /\ pc = "sampled"
    /\ IsSampled(frame_index, frame_interval)
    /\ IF fps = 0
       THEN /\ pc' = "raised"
            /\ raised' = [type |-> TyZeroDivisionError, stage |-> "frame"]
            /\ UNCHANGED <<timestamp_ms, calls>>
       ELSE /\ pc' = "stamped"
            /\ timestamp_ms' = TimestampMs(frame_index, fps)
            /\ calls' = <<[call |-> "vision", frame |-> frame_index, text |-> <<>>,
                           prompt_ms |-> PromptTimestampMs(frame_index, fps)]>>
                         \o calls
            /\ UNCHANGED raised
    /\ UNCHANGED <<args, dashboard, detection, fps, total_frames, frame_index, frame_responses,
                   product_timestamps, temp_files, base_summary,
                   evaluation_result, result, analyses>>

\* Lines 129-160 for an answered call: the evidence entry, the
\* classification, the removal of the temporary file and the step to the
\* next frame, which is read and written to its temporary file (lines
\* 118-125) if the source has one.
ClassifyStamped ==
    /\ pc = "stamped"
    /\ \E content \in {AnsLocated, AnsNothing} :
         LET response == Strip(content)
         IN  /\ frame_responses' =
                    Append(frame_responses, FrameEntry(frame_index, timestamp_ms, response))
             /\ product_timestamps' =
                    ClassifyStep(product_timestamps, response, timestamp_ms,
                                 total_frames, fps)
             /\ analyses' = Append(analyses,
                    [frame |-> frame_index, timestamp_ms |-> timestamp_ms,
                     kind |-> "ok", response |-> response,
                     appended |-> IsPositiveEvidence(response, timestamp_ms,
                                                     total_frames, fps)])
    /\ frame_index' = frame_index + 1
    /\ IF frame_index + 1 < cap.frames
       THEN pc' = "sampled" /\ temp_files' = {frame_index + 1}
       ELSE pc' = "summary" /\ temp_files' = {}
    /\ UNCHANGED <<args, dashboard, detection, fps, total_frames, timestamp_ms, base_summary,
                   evaluation_result, result, raised, calls>>

NextTimestamp ==
    \/ TimestampStep
    \/ ClassifyStamped

SpecTimestamp == InitTimestamp /\ [][NextTimestamp]_vars

\* ------------------------------------------------------------------------
\* The choice of the product name, for more summaries and questions than
\* the runs above produce
\* ------------------------------------------------------------------------

\* The summary and the evaluation have been obtained for a video without
\* frames.
InitProduct ==
    /\ base_summary \in ProductSummaries
    /\ user_question \in ProductQuestions
    /\ video_path = PathVideo
    /\ frame_interval = 1
    /\ credentials = TRUE
    /\ cap = [opened |-> TRUE, frames |-> 0, fps |-> 1, count |-> 0]
    /\ pc = "evaluated"
    /\ fps = cap.fps
    /\ total_frames = cap.count
    /\ frame_index = 0
    /\ frame_responses = <<>>
    /\ product_timestamps = <<>>
    /\ timestamp_ms = 0
    /\ temp_files = {}
    /\ evaluation_result = Strip(EvalGood)
    /\ result = NoResult
    /\ raised = NoException
    /\ analyses = <<>>
    /\ calls = <<>>
    /\ detection = NoDetection
    /\ session_state = NewSession
    /\ page = BlankPage

\* Lines 215-224 (203-212).
ProductNameStep ==
    /\ pc = "evaluated"
    /\ calls' = calls \o ExtractorCalls(base_summary, user_question)
    /\ result' = ReturnValue(base_summary, product_timestamps, user_question,
                             evaluation_result)
    /\ pc' = "returned"
    /\ UNCHANGED <<args, dashboard, detection, fps, total_frames, frame_index, frame_responses,
                   product_timestamps, timestamp_ms, temp_files, base_summary,
                   evaluation_result, raised, analyses>>

NextProduct == ProductNameStep

SpecProduct == InitProduct /\ [][NextProduct]_vars

\* ------------------------------------------------------------------------
\* streamlit_app.py: the summary section and the product section of a
\* script run, for a session that holds the result of an analysis
\* ------------------------------------------------------------------------

\* The session after the Analyze handler (lines 233-243) has stored the
\* result of an analysis of a video.
AnalysedSession(summary) ==
    LET analysed == ReturnValue(summary, <<>>, QuestionTide, <<>>)
    IN  [file_path |-> PathVideo, file_type |-> "video",
         timestamps |-> analysed.timestamps, summary |-> analysed.final_summary,
         file_base64 |-> <<"A", "A", "=", "=">>, has_result |-> TRUE,
         result |-> analysed, analysed_path |-> PathVideo]

InitDashboard ==
    /\ session_state \in {AnalysedSession(summary) : summary \in StoredSummaries}
    /\ page = BlankPage
    /\ video_path = PathVideo
    /\ user_question = QuestionTide
    /\ frame_interval = 23
    /\ credentials = TRUE
    /\ cap = [opened |-> TRUE, frames |-> 0, fps |-> 1, count |-> 0]
    /\ pc = "dashboard"
    /\ fps = 0
    /\ total_frames = 0
    /\ frame_index = 0
    /\ frame_responses = <<>>
    /\ product_timestamps = <<>>
    /\ timestamp_ms = 0
    /\ temp_files = {}
    /\ base_summary = <<>>
    /\ evaluation_result = <<>>
    /\ result = NoResult
    /\ raised = NoException
    /\ analyses = <<>>
    /\ calls = <<>>
    /\ detection = NoDetection

\* The variables of analyze_video_for_query.
pipeline ==
    <<args, pc, fps, total_frames, frame_index, frame_responses,
      product_timestamps, timestamp_ms, temp_files, base_summary,
      evaluation_result, result, raised, analyses, calls>>

\* Lines 268-282: the summary section.
ShowSummary ==
    /\ pc = "dashboard"
    /\ session_state.summary # <<>>
    /\ ~page.summary.shown
    /\ ~page.products.shown
    /\ page' = [page EXCEPT !.summary =
                    [shown |-> TRUE, text |-> CleanSummary(session_state.summary)]]
    /\ UNCHANGED <<pipeline, detection, session_state>>

\* Lines 284-561: the product section, once "Find Best Deals" is pressed and
\* the search has answered (or the fallback of lines 481-487 has been taken).
ShowProducts ==
    /\ pc = "dashboard"
    /\ page.summary.shown \/ session_state.summary = <<>>
    /\ ~page.products.shown
    /\ session_state.has_result
    /\ session_state.result.product_name # <<>>
    /\ Lower(session_state.result.product_name) # Unknown
    /\ \E enhanced_results \in SearchResults :
         page' = [page EXCEPT !.products = RenderProducts(enhanced_results)]
    /\ UNCHANGED <<pipeline, detection, session_state>>

\* The script runs again, from an empty page.
Rerun ==
    /\ pc = "dashboard"
    /\ page # BlankPage
    /\ page' = BlankPage
    /\ UNCHANGED <<pipeline, detection, session_state>>

NextDashboard ==
    \/ ShowSummary
    \/ ShowProducts
    \/ Rerun

SpecDashboard == InitDashboard /\ [][NextDashboard]_vars

\* ------------------------------------------------------------------------
\* One failed per-frame call, for more exceptions than the runs above raise
\* ------------------------------------------------------------------------

\* Frame frame_index of a one-frame-per-second source has been sampled and
\* its timestamp computed (line 127); the call of line 129 is next.
InitFailure ==
    /\ frame_index \in 0..MaxFailedFrame
    /\ credentials \in BOOLEAN
    /\ frame_interval = IF frame_index = 0 THEN 1 ELSE frame_index
    /\ cap = [opened |-> TRUE, frames |-> frame_index + 1, fps |-> 1,
              count |-> frame_index + 1]
    /\ fps = cap.fps
    /\ total_frames = cap.count
    /\ timestamp_ms = TimestampMs(frame_index, fps)
    /\ video_path = PathVideo
    /\ user_question = QuestionTide
    /\ pc = "failing"
    /\ frame_responses = <<>>
    /\ product_timestamps = <<>>
    /\ temp_files = {frame_index}
    /\ base_summary = <<>>
    /\ evaluation_result = <<>>
    /\ result = NoResult
    /\ raised = NoException
    /\ analyses = <<>>
    /\ calls = <<>>
    /\ detection = NoDetection
    /\ session_state = NewSession
    /\ page = BlankPage

\* Lines 129-160 for a call that fails: the placeholder is recorded and
\* classified like any response.
AnalyzeFailedFrame ==
    /\ pc = "failing"
    /\ \E outcome \in FailuresFor(credentials) :
         LET r == ExtractProductsFromImage(outcome, frame_index, credentials)
         IN  /\ calls' = Append(calls, [call |-> "vision", frame |-> frame_index,
                                        text |-> <<>>,
                                        prompt_ms |-> PromptTimestampMs(frame_index, fps)])
             /\ frame_responses' =
                    Append(frame_responses, FrameEntry(frame_index, timestamp_ms, r.text))
             /\ product_timestamps' =
                    ClassifyStep(product_timestamps, r.text, timestamp_ms,
                                 total_frames, fps)
             /\ analyses' = Append(analyses,
                    [frame |-> frame_index, timestamp_ms |-> timestamp_ms,
                     kind |-> outcome.kind, response |-> r.text,
                     appended |-> IsPositiveEvidence(r.text, timestamp_ms,
                                                     total_frames, fps),
                     type |-> outcome.type, message |-> outcome.message])
    /\ temp_files' = temp_files \ {frame_index}
    /\ frame_index' = frame_index + 1
    /\ pc' = "loop"
    /\ UNCHANGED <<args, dashboard, detection, fps, total_frames, timestamp_ms, base_summary,
                   evaluation_result, result, raised>>

NextFailure == AnalyzeFailedFrame

SpecFailure == InitFailure /\ [][NextFailure]_vars
\* ------------------------------------------------------------------------
\* streamlit_app.py: the session across script runs: choosing a file, the
\* Analyze handler, the timeline section and the Clear Session handler
\* ------------------------------------------------------------------------

\* 'uploaded_files'
UPLOAD_DIR ==
    <<"u", "p", "l", "o", "a", "d", "e", "d", "_", "f", "i", "l", "e", "s">>

\* 'aisle.MOV'
PathVideo2 ==
    <<"a", "i", "s", "l", "e", ".", "M", "O", "V">>

\* 'promo.xmov'
PathUnrecognised ==
    <<"p", "r", "o", "m", "o", ".", "x", "m", "o", "v">>

\* 'mp4'
ExtMp4 ==
    <<"m", "p", "4">>

\* 'mov'
ExtMov ==
    <<"m", "o", "v">>

\* 'avi'
ExtAvi ==
    <<"a", "v", "i">>

\* 'mkv'
ExtMkv ==
    <<"m", "k", "v">>

\* 'jpg'
ExtJpgName ==
    <<"j", "p", "g">>

\* 'jpeg'
ExtJpegName ==
    <<"j", "p", "e", "g">>

\* 'png'
ExtPngName ==
    <<"p", "n", "g">>

VideoExtensions == {ExtMp4, ExtMov, ExtAvi, ExtMkv}

ImageExtensions == {ExtJpgName, ExtJpegName, ExtPngName}

\* Names the file uploader accepts (lines 118-121).
UploadableFiles == {PathVideo, PathVideo2, PathImage}

\* Names the dropdown offers: line 126 keeps every name of the directory
\* whose lower-cased form ends in '.mp4', 'mov', 'avi', 'mkv', 'jpg', 'jpeg'
\* or 'png', so 'promo.xmov' is offered too.
DropdownFiles == UploadableFiles \cup {PathUnrecognised}

\* The text area of line 230, empty or filled in.
UserQueries == {<<>>, QuestionTide}

\* Summaries and timestamp lists analyze_video_for_query returns.
SessionSummaries == {SumMarkerTide, SumNoMarker}

SessionTimestamps == {<<>>, <<0, 1000>>}

AnalysisResults ==
    {ReturnValue(summary, timestamps, QuestionTide, <<>>) :
        summary \in SessionSummaries, timestamps \in SessionTimestamps}

\* Exceptions analyze_video_for_query lets through.
AnalysisFailures == {TyZeroDivisionError, TyAPITimeoutError}

\* base64.b64encode(file_bytes).decode("utf-8") of a file of one zero byte.
EncodedFile == <<"A", "A", "=", "=">>

\* The largest index of a '.' in name, 0 when there is none.
LastDot(name) ==
    LET dots == {i \in 1..Len(name) : name[i] = "."}
    IN  IF dots = {} THEN 0 ELSE CHOOSE i \in dots : \A j \in dots : j <= i

\* name.split(".")[-1].lower()
FileExt(name) == Lower(SubSeq(name, LastDot(name) + 1, Len(name)))

\* Lines 216-218.
FileType(file_ext) ==
    IF file_ext \in VideoExtensions THEN "video"
    ELSE IF file_ext \in ImageExtensions THEN "image"
    ELSE "none"

\* os.path.join(UPLOAD_DIR, name)
PathJoin(directory, name) == directory \o <<"/">> \o name

\* The truth value of a text or None.
Truthy(value) == value # NoneText /\ value # <<>>

\* No section displayed yet in this script run.
NothingShown ==
    /\ ~page.summary.shown
    /\ ~page.products.shown
    /\ ~page.timeline.shown

\* Lines 213-226: the chosen file is loaded into the session.  file_type is
\* assigned before the file is opened, file_base64 after it is read and
\* file_path last; an exception is reported by st.error.
LoadFile(name, readable) ==
    LET file_ext == FileExt(name)
        file_to_use == PathJoin(UPLOAD_DIR, name)
    IN  /\ session_state' =
              IF readable
              THEN [session_state EXCEPT !.file_type = FileType(file_ext),
                                         !.file_base64 = EncodedFile,
                                         !.file_path = file_to_use]
              ELSE [session_state EXCEPT !.file_type = FileType(file_ext)]
        /\ page' = [page EXCEPT !.notice =
                        IF readable THEN page.notice ELSE "read_error"]

\* Lines 194-205 and 213-226: a script run with a file in the uploader; the
\* file is written to the upload directory and then loaded.
UploadFile ==
    /\ pc = "dashboard"
    /\ NothingShown
    /\ page.notice = "none"
    /\ \E name \in UploadableFiles : LoadFile(name, TRUE)
    /\ UNCHANGED <<pipeline, detection>>

\* Lines 207-209 and 213-226: a script run with a name chosen in the
\* dropdown; the file of that name may have gone since the directory was
\* listed.
SelectFile ==
    /\ pc = "dashboard"
    /\ NothingShown
    /\ page.notice = "none"
    /\ \E name \in DropdownFiles, readable \in BOOLEAN : LoadFile(name, readable)
    /\ UNCHANGED <<pipeline, detection>>

\* What a returned analysis leaves in the session (lines 238-240).
Stored(session, analysed) ==
    [session EXCEPT !.has_result = TRUE,
                    !.result = analysed,
                    !.summary = analysed.final_summary,
                    !.timestamps = IF session.file_type = "video"
                                   THEN analysed.timestamps ELSE <<>>,
                    !.analysed_path = session.file_path]

\* The variables of analyze_video_for_query that the Analyze handler does
\* not show.
inner ==
    <<frame_interval, credentials, cap, pc, fps, total_frames, frame_index,
      frame_responses, product_timestamps, timestamp_ms, temp_files,
      base_summary, evaluation_result, analyses, calls>>

\* An Analyze handler that empties the summary and the timestamps before it
\* calls the analysis.
AnalyzeClearingFirst ==
    /\ pc = "dashboard"
    /\ NothingShown
    /\ page.notice \in {"none", "read_error"}
    /\ \E user_query \in UserQueries :
         IF Truthy(session_state.file_path) /\ user_query # <<>>
               /\ session_state.file_type # "none"
         THEN /\ video_path' = session_state.file_path
              /\ user_question' = user_query
              /\ \/ \E analysed \in AnalysisResults :
                      /\ result' = analysed
                      /\ raised' = NoException
                      /\ session_state' = Stored(session_state, analysed)
                      /\ page' = [page EXCEPT !.notice = "analysis_complete"]
                 \/ \E type \in AnalysisFailures :
                      /\ raised' = [type |-> type, stage |-> "analysis"]
                      /\ page' = [page EXCEPT !.notice = "processing_error"]
                      /\ session_state' = [session_state EXCEPT
                                               !.summary = <<>>,
                                               !.timestamps = <<>>]
                      /\ UNCHANGED result
         ELSE UNCHANGED <<video_path, user_question, result, raised,
                          session_state, page>>
    /\ UNCHANGED <<inner, detection>>

\* Lines 233-243: the Analyze handler.  The analysis is called with the
\* session's file_path and the question; what it returns is stored, what it
\* raises is reported by st.error.
Analyze ==
    /\ pc = "dashboard"
    /\ NothingShown
    /\ page.notice \in {"none", "read_error"}
    /\ \E user_query \in UserQueries :
         IF Truthy(session_state.file_path) /\ user_query # <<>>
               /\ session_state.file_type # "none"
         THEN /\ video_path' = session_state.file_path
              /\ user_question' = user_query
              /\ \/ \E analysed \in AnalysisResults :
                      /\ result' = analysed
                      /\ raised' = NoException
                      /\ session_state' = Stored(session_state, analysed)
                      /\ page' = [page EXCEPT !.notice = "analysis_complete"]
                 \/ \E type \in AnalysisFailures :
                      /\ raised' = [type |-> type, stage |-> "analysis"]
                      /\ page' = [page EXCEPT !.notice = "processing_error"]
                      /\ UNCHANGED <<result, session_state>>
         ELSE UNCHANGED <<video_path, user_question, result, raised,
                          session_state, page>>
    /\ UNCHANGED <<inner, detection>>

\* Lines 657-674 and 745-757: the timeline section, over the video that
\* file_path names, with one marker for each stored timestamp.
ShowTimeline ==
    /\ pc = "dashboard"
    /\ ~page.timeline.shown
    /\ page.summary.shown
    /\ page.notice \notin {"file_deleted", "delete_failed"}
    /\ session_state.file_type = "video"
    /\ Truthy(session_state.file_path)
    /\ Truthy(session_state.file_base64)
    /\ Truthy(session_state.summary)
    /\ page' = [page EXCEPT !.timeline =
                    [shown |-> TRUE, video |-> session_state.file_path,
                     markers |-> session_state.timestamps,
                     analysed_path |-> session_state.analysed_path]]
    /\ UNCHANGED <<pipeline, detection, session_state>>

\* The five keys of line 768 with the values line 769 gives them.
Cleared(session) ==
    [session EXCEPT !.file_path = NoneText, !.file_type = "none",
                    !.timestamps = <<>>, !.summary = <<>>,
                    !.file_base64 = <<>>]

\* A Clear Session handler that resets the session only when the file could
\* be deleted.
ClearWhenDeleted ==
    /\ pc = "dashboard"
    /\ Truthy(session_state.file_path)
    /\ page.notice \notin {"file_deleted", "delete_failed"}
    /\ \E deleted \in BOOLEAN :
         /\ page' = [page EXCEPT !.notice =
                         IF deleted THEN "file_deleted" ELSE "delete_failed"]
         /\ session_state' = IF deleted THEN Cleared(session_state)
                             ELSE session_state
    /\ UNCHANGED <<pipeline, detection>>

\* Lines 760-769: the Clear Session handler; os.remove succeeds or raises.
Clear ==
    /\ pc = "dashboard"
    /\ Truthy(session_state.file_path)
    /\ page.notice \notin {"file_deleted", "delete_failed"}
    /\ \E deleted \in BOOLEAN :
         page' = [page EXCEPT !.notice =
                      IF deleted THEN "file_deleted" ELSE "delete_failed"]
    /\ session_state' = Cleared(session_state)
    /\ UNCHANGED <<pipeline, detection>>

\* The first script run of a session.
InitSession ==
    /\ session_state = NewSession
    /\ page = BlankPage
    /\ video_path = PathVideo
    /\ user_question = QuestionTide
    /\ frame_interval = 23
    /\ credentials = TRUE
    /\ cap = [opened |-> TRUE, frames |-> 0, fps |-> 1, count |-> 0]
    /\ pc = "dashboard"
    /\ fps = 0
    /\ total_frames = 0
    /\ frame_index = 0
    /\ frame_responses = <<>>
    /\ product_timestamps = <<>>
    /\ timestamp_ms = 0
    /\ temp_files = {}
    /\ base_summary = <<>>
    /\ evaluation_result = <<>>
    /\ result = NoResult
    /\ raised = NoException
    /\ analyses = <<>>
    /\ calls = <<>>
    /\ detection = NoDetection

NextSession ==
    \/ UploadFile
    \/ SelectFile
    \/ Analyze
    \/ ShowSummary
    \/ ShowTimeline
    \/ Clear
    \/ Rerun

SpecSession == InitSession /\ [][NextSession]_vars

\* ------------------------------------------------------------------------
\* google_vision.py: a call of detect_products_in_image, or of
\* _fallback_product_detection on its own (test_new_features.py line 85)
\* ------------------------------------------------------------------------

InitVision ==
    /\ \E entry \in {"detect", "fallback"}, image_path \in DetectorImages :
         detection = [NoDetection EXCEPT !.pc = entry, !.entry = entry,
                                         !.image_path = image_path]
    /\ credentials \in BOOLEAN
    /\ session_state = NewSession
    /\ page = BlankPage
    /\ video_path = PathImage
    /\ user_question = QuestionTide
    /\ frame_interval = 23
    /\ cap = [opened |-> TRUE, frames |-> 0, fps |-> 1, count |-> 0]
    /\ pc = "detector"
    /\ fps = 0
    /\ total_frames = 0
    /\ frame_index = 0
    /\ frame_responses = <<>>
    /\ product_timestamps = <<>>
    /\ timestamp_ms = 0
    /\ temp_files = {}
    /\ base_summary = <<>>
    /\ evaluation_result = <<>>
    /\ result = NoResult
    /\ raised = NoException
    /\ analyses = <<>>
    /\ calls = <<>>

\* Lines 41-91 of detect_products_in_image, up to the return of the parsed
\* products or to the call of the fallback: an exception in the try body,
\* the parsing of line 84 included, and a status other than 200 both go to
\* the fallback.
DetectProductsInImage ==
    /\ pc = "detector"
    /\ detection.pc = "detect"
    /\ \E outcome \in RequestOutcomes :
         IF outcome.kind # "answered"
         THEN detection' = [detection EXCEPT !.pc = "fallback",
                                             !.cause = outcome.kind]
         ELSE IF outcome.status # 200
         THEN detection' = [detection EXCEPT !.pc = "fallback",
                                             !.cause = "status"]
         ELSE LET parsed == ParseVisionResponse(outcome.response)
              IN  IF parsed.raised
                  THEN detection' = [detection EXCEPT !.pc = "fallback",
                                                      !.cause = "parse_error"]
                  ELSE detection' = [detection EXCEPT !.pc = "returned",
                                                      !.products = parsed.products]
    /\ UNCHANGED <<pipeline, dashboard>>

\* Lines 236-255: _fallback_product_detection, with the call of
\* extract_products_from_image on the image, without frame number.
Fallback ==
    /\ pc = "detector"
    /\ detection.pc = "fallback"
    /\ \E import_ok \in BOOLEAN, outcome \in FallbackOutcomes(credentials) :
         LET analysis == ExtractProductsFromImage(outcome, None, credentials)
             returned == FallbackProductDetection(import_ok, analysis)
         IN  /\ detection' =
                   [detection EXCEPT
                       !.pc = IF returned.raised THEN "raised" ELSE "returned",
                       !.analysis = IF ~import_ok THEN "import_error"
                                    ELSE IF analysis.raised THEN "raised"
                                    ELSE IF analysis.text = <<>> THEN "empty_text"
                                    ELSE "text",
                       !.parsed = returned.parsed,
                       !.raised = returned.raised,
                       !.products = returned.products]
             /\ calls' = IF import_ok
                         THEN <<[call |-> "vision", frame |-> None,
                                 text |-> analysis.text, prompt_ms |-> None]>>
                         ELSE calls
    /\ UNCHANGED <<args, pc, fps, total_frames, frame_index, frame_responses,
                   product_timestamps, timestamp_ms, temp_files, base_summary,
                   evaluation_result, result, raised, analyses, dashboard>>

NextVision ==
    \/ DetectProductsInImage
    \/ Fallback

SpecVision == InitVision /\ [][NextVision]_vars

\* ------------------------------------------------------------------------
\* Properties
\* ------------------------------------------------------------------------

Range(s) == {s[i] : i \in 1..Len(s)}

\* The frames the source decodes to.
DecodedFrames == IF cap.opened THEN cap.frames ELSE 0

\* TRUE iff text, lower-cased, contains a phrase of the set.
Mentions(text, phrases) ==
    LET low == Lower(text) IN \E p \in phrases : Contains(low, p)

\* C1: a sampled frame's timestamp is appended to the positive-evidence
\* list if and only if its lower-cased response contains a presence keyword,
\* contains no uncertainty keyword, and the timestamp is below 90 % of the
\* video duration (total_frames / fps seconds) or the response does not
\* contain "end"; a timestamp equal to the 90 % mark is inside the window.
\* timestamp < 0.9 * (total_frames / fps) * 1000 is, in exact arithmetic,
\* timestamp * fps < 900 * total_frames.
C1_PositiveIff ==
    \A k \in 1..Len(analyses) :
        analyses[k].appended <=>
            /\ Mentions(analyses[k].response, PresenceKeywords)
            /\ ~Mentions(analyses[k].response, UncertainPhrases)
            /\ \/ analyses[k].timestamp_ms * fps < 900 * total_frames
               \/ ~Mentions(analyses[k].response, {KwEnd})

\* C2: the timestamp of a frame whose response contains an uncertainty
\* keyword is never in the positive-evidence list, whatever presence
\* keywords the response contains.
C2_UncertainExcluded ==
    \A k \in 1..Len(analyses) :
        \/ /\ ~analyses[k].appended
           /\ analyses[k].timestamp_ms \notin Range(product_timestamps)
        \/ ~Mentions(analyses[k].response, UncertainPhrases)

\* A frame answered "Not visible ..." (which contains "visible") has been
\* classified while another frame's timestamp is in the list.
C2_Witness ==
    /\ pc = "summary"
    /\ product_timestamps # <<>>
    /\ \E k \in 1..Len(analyses) :
         /\ Mentions(analyses[k].response, {UnNotVisible})
         /\ Mentions(analyses[k].response, {KwVisible})

\* C3: when the summary contains "not visible" in any letter case, the
\* returned timestamps are the empty list.
C3_NotVisibleSummaryEmpties ==
    (pc = "returned" /\ Mentions(result.final_summary, {UnNotVisible}))
        => result.timestamps = <<>>

\* Returned with a summary that says "NOT VISIBLE" in capitals although the
\* frame loop had collected a timestamp.
C3_Witness ==
    /\ pc = "returned"
    /\ Mentions(result.final_summary, {UnNotVisible})
    /\ ~Contains(result.final_summary, UnNotVisible)
    /\ \E k \in 1..Len(analyses) : analyses[k].appended

\* C4: the analysed frames are exactly the decoded frames whose index is a
\* multiple of frame_interval, each once, in increasing order: after
\* frame_index iterations they are 0, frame_interval, 2 * frame_interval, ...
\* below frame_index, and the loop ends only when every decoded frame has
\* been passed.
C4_SampledFrames ==
    /\ Len(analyses) = SampleCount(frame_index, frame_interval)
    /\ \A k \in 1..Len(analyses) : analyses[k].frame = (k - 1) * frame_interval
    /\ pc \in {"summary", "image", "evaluate", "returned"} => frame_index = DecodedFrames

\* The loop has ended after two analysed frames with unsampled frames
\* between and after them.
C4_Witness ==
    /\ pc = "summary"
    /\ Len(analyses) = 2
    /\ frame_interval > 1
    /\ DecodedFrames > frame_interval + 1

\* C5: when the per-frame call for frame n times out, the function returns
\* exactly "[Skipped frame n due to timeout. Try again later.]", that text is
\* recorded as the frame's analysis, and the loop goes on.
C5_TimeoutSkipMarker ==
    /\ raised.stage # "vision"
    /\ \A k \in 1..Len(analyses) :
         analyses[k].kind = "timeout" =>
            /\ analyses[k].response = TimeoutText(analyses[k].frame)
            /\ frame_responses[k] =
                   FrameEntry(analyses[k].frame, analyses[k].timestamp_ms,
                              TimeoutText(analyses[k].frame))

\* C6: extract_products_from_image never raises; every failure inside it
\* becomes one of the three placeholder texts carrying the frame index.
C6_FailuresBecomeText ==
    /\ raised.stage # "vision"
    /\ \A k \in 1..Len(analyses) :
         analyses[k].kind \in {"timeout", "connection", "other"} =>
            \/ analyses[k].response = TimeoutText(analyses[k].frame)
            \/ analyses[k].response = ConnectionText(analyses[k].frame)
            \/ \E o \in VisionFailures :
                  analyses[k].response = OtherErrorText(analyses[k].frame, o.type)

\* The loop has ended after one frame got a placeholder of the last class
\* and another frame a placeholder of the connection class.
C6_Witness ==
    /\ pc = "summary"
    /\ \E j, k \in 1..Len(analyses) :
         /\ analyses[j].response = OtherErrorText(analyses[j].frame, TyFileNotFoundError)
         /\ analyses[k].response = ConnectionText(analyses[k].frame)

\* C7: the temporary file of a sampled frame is deleted before the next
\* iteration and on every way of leaving the iteration; none exists once the
\* function has returned or raised.  A file exists only between its creation
\* and the end of the same iteration.
C7_TempFileRemoved == pc # "vision" => temp_files = {}

\* C8: no failure of a per-frame call, of the summary call or of the
\* evaluation call leaves analyze_video_for_query as an exception.
C8_NeverPropagates ==
    ~(pc = "raised" /\ raised.stage \in {"vision", "summary", "evaluate"})

\* C9: two runs that differ only in the text the evaluation returns return
\* the same dictionary: the value returned is the one any other evaluation
\* text would have given.
C9_EvaluationDoesNotAlter ==
    pc = "returned" =>
        \A c \in EvalContents :
            result = ReturnValue(base_summary, product_timestamps, user_question, Strip(c))

\* Returned with timestamps after an evaluation that scored the summary low.
C9_Witness ==
    /\ pc = "returned"
    /\ evaluation_result = Strip(EvalBad)
    /\ result.timestamps # <<>>

\* C10: a failing evaluation call does not keep the function from returning
\* the summary, timestamps and product name already computed.
C10_EvaluationNeverBlocks == ~(pc = "raised" /\ raised.stage = "evaluate")

RECURSIVE ExpectedEvidence(_)
\* The first k analysed frames as one document: each entry headed by its
\* frame index and timestamp, a blank line between two entries.
ExpectedEvidence(k) ==
    LET a     == analyses[k]
        entry == FramePrefix \o IntToStr(a.frame) \o OpenParen
                     \o IntToStr(a.timestamp_ms) \o MsSuffix \o a.response
    IN  IF k = 0 THEN <<>>
        ELSE IF k = 1 THEN entry
        ELSE ExpectedEvidence(k - 1) \o <<"\n", "\n">> \o entry

\* C11: the evidence document given to the summary call and to the
\* evaluation call holds exactly one entry per sampled frame, failed frames
\* included, each entry headed by the frame index and the timestamp, in
\* increasing frame order, with a blank line between two entries.
C11_EvidenceDocument ==
    \A n \in 1..Len(calls) :
        calls[n].call \in {"summary", "evaluate"} =>
            /\ Len(analyses) = SampleCount(DecodedFrames, frame_interval)
            /\ \A k \in 1..Len(analyses) : analyses[k].frame = (k - 1) * frame_interval
            /\ calls[n].text = ExpectedEvidence(Len(analyses))

\* Two frames were sampled, the first of them failed, and the evaluation
\* call has been given the document.
C11_Witness ==
    /\ Len(analyses) = 2
    /\ analyses[1].kind # "ok"
    /\ \E n \in 1..Len(calls) : calls[n].call = "evaluate"

\* C12: for a sampled frame i the timestamp the vision prompt names and the
\* timestamp of the evidence entry (which is also the one appended to the
\* positive-evidence list) are the same value floor(i * 1000 / fps), for
\* every frame index, 0 included, and every reported frame rate.
C12_TimestampIsFloor ==
    /\ pc # "raised"
    /\ pc = "stamped" =>
          /\ timestamp_ms = (frame_index * 1000) \div fps
          /\ calls[1].prompt_ms = timestamp_ms

\* C13: whenever one of the four API configuration values is missing,
\* extract_products_from_image returns the fixed credentials-missing text,
\* whatever the image path and the frame index, and sends no request.
C13_CredentialsMissingText ==
    ~credentials =>
        \A k \in 1..Len(analyses) :
            /\ analyses[k].response = CredentialsMissing
            /\ analyses[k].kind = NotCalled.kind

\* The texts extract_product_name was applied to, in order.
ExtractorTexts ==
    LET at == {n \in 1..Len(calls) : calls[n].call = "extract_product_name"}
        nth(k) == CHOOSE n \in at : Cardinality({j \in at : j <= n}) = k
    IN  [k \in 1..Cardinality(at) |-> calls[nth(k)].text]

\* The summary names a product: the extractor's result on it is neither
\* empty nor "unknown" in any letter case.
SummaryNamesProduct ==
    LET s == ExtractProductName(base_summary)
    IN  s # <<>> /\ Lower(s) # Unknown

\* C14: the returned product_name is the extractor's result on the summary
\* when that result is non-empty and not "unknown" in any letter case, and
\* otherwise the extractor's result on the user's question; the extractor is
\* applied to the question in the second case only.
C14_ProductNameChoice ==
    pc = "returned" =>
        /\ result.product_name =
               IF SummaryNamesProduct THEN ExtractProductName(base_summary)
               ELSE ExtractProductName(user_question)
        /\ ExtractorTexts =
               IF SummaryNamesProduct THEN <<base_summary>>
               ELSE <<base_summary, user_question>>

\* The summary's marker says "Unknown" and the name was taken from a
\* question that names a product.
C14_Witness ==
    /\ pc = "returned"
    /\ Lower(ExtractProductName(base_summary)) = Unknown
    /\ ExtractProductName(base_summary) # Unknown
    /\ result.product_name = ExtractProductName(user_question)
    /\ result.product_name # Unknown

\* C15: a source that cannot be opened is treated as an empty frame
\* sequence, not as an error: no frame is sampled, the evidence document is
\* empty, the returned timestamps are empty, and the summary request is still
\* made, from the empty evidence.
C15_UnopenedSourceIsEmpty ==
    ~cap.opened =>
        /\ pc # "vision"
        /\ raised.stage \notin {"open", "frame"}
        /\ analyses = <<>>
        /\ temp_files = {}
        /\ frame_responses = <<>>
        /\ product_timestamps = <<>>
        /\ \A n \in 1..Len(calls) : calls[n].frame = None
        /\ pc \notin {"start", "loop", "summary"} =>
              /\ calls # <<>>
              /\ calls[1].call = "summary"
              /\ calls[1].text = <<>>
        /\ pc = "returned" => result.timestamps = <<>>

\* The source did not open and the function has returned its dictionary.
C15_Witness ==
    /\ ~cap.opened
    /\ pc = "returned"
    /\ \E n \in 1..Len(calls) : calls[n].call = "summary" /\ calls[n].text = <<>>

\* The positions of the vision calls in the call history.
VisionCalls == {n \in 1..Len(calls) : calls[n].call = "vision"}

\* C16: for every input path, video or still image, the number of vision
\* calls equals the number of sampled frames: each vision call is the call
\* for a sampled frame, no frame is called for twice (no retry), and every
\* sampled frame analysed so far has its call.
C16_OneVisionCallPerSampledFrame ==
    /\ \A n \in VisionCalls :
          /\ calls[n].frame # None
          /\ calls[n].frame % frame_interval = 0
          /\ calls[n].frame < DecodedFrames
    /\ \A n, k \in VisionCalls : calls[n].frame = calls[k].frame => n = k
    /\ Cardinality(VisionCalls) = Len(analyses)

\* The positions, in the call history, of the vision calls made for a frame.
FrameCalls == {n \in VisionCalls : calls[n].frame # None}

\* The positions of the calls of one kind.
CallsOf(kind) == {n \in 1..Len(calls) : calls[n].call = kind}

AppendedTimestamps ==
    LET positive == SelectSeq(analyses, LAMBDA a : a.appended)
    IN  [k \in 1..Len(positive) |-> positive[k].timestamp_ms]

\* C18: the classification of a frame is deterministic and stateless: a
\* response with the same text, timestamp and video duration gets the same
\* result whatever was processed before it (here: had the list already held
\* that timestamp), and the decision taken for an earlier frame is never
\* revised by a later one (the list is, all through the loop, the timestamps
\* of the frames classified positive, in frame order).
C18_ClassificationStateless ==
    /\ (pc = "loop" /\ analyses # <<>>
            /\ frame_index = analyses[Len(analyses)].frame + 1) =>
          LET a      == analyses[Len(analyses)]
              before == <<a.timestamp_ms>>
              after  == ClassifyStep(before, a.response, a.timestamp_ms,
                                     total_frames, fps)
          IN  /\ (after # before) <=> a.appended
              /\ after \in {before, Append(before, a.timestamp_ms)}
    /\ pc \in {"loop", "vision", "summary"} => product_timestamps = AppendedTimestamps

\* Two frames were analysed, the first positive and the second not, and the
\* first frame's timestamp is still the list.
C18_Witness ==
    /\ Len(analyses) = 2
    /\ analyses[1].appended
    /\ ~analyses[2].appended
    /\ pc = "loop"
    /\ product_timestamps = <<analyses[1].timestamp_ms>>

\* TRUE iff text has a line of the form product_name = <value>, the key in
\* any letter case.
HasMarkerLine(text) ==
    LET low == Lower(text)
    IN  \E i \in 1..Len(text) :
            /\ low[i] = MarkerKey[1]
            /\ i + Len(MarkerKey) - 1 <= Len(text)
            /\ SubSeq(low, i, i + Len(MarkerKey) - 1) = MarkerKey
            /\ \A j \in 1..(i - 1) :
                   (\A k \in j..(i - 1) : text[k] # "\n") => text[j] \in Whitespace
            /\ LET eq == SkipSpaces(text, i + Len(MarkerKey))
               IN  eq <= Len(text) /\ text[eq] = "="

\* C19: the summary the dashboard displays never contains a product-name
\* marker line: every line of the form product_name = <value>, the key
\* matched in any letter case and wherever the line sits, has been removed.
C19_NoMarkerLineDisplayed ==
    page.summary.shown => ~HasMarkerLine(page.summary.text)

\* C20: when the search returns a list, the product cards are that list in
\* the same order with the ranks 1, 2, ..., and the best deal is its first
\* element; for an empty list no card and no banner are shown and the
\* 'No products found' warning is.
C20_CardsAreTheList ==
    (page.products.shown /\ page.products.enhanced_results.type = "list") =>
        LET items == page.products.enhanced_results.items
            shown == page.products
        IN  /\ Len(shown.cards) = Len(items)
            /\ \A n \in 1..Len(items) :
                   shown.cards[n].product = items[n] /\ shown.cards[n].rank = n
            /\ items # <<>> => shown.banner = <<items[1]>> /\ ~shown.warning
            /\ items = <<>> => shown.banner = <<>> /\ shown.warning

\* A list of three products, the first two different, has been displayed.
C20_Witness ==
    /\ page.products.shown
    /\ page.products.enhanced_results.type = "list"
    /\ Len(page.products.enhanced_results.items) = 3
    /\ page.products.enhanced_results.items[1] # page.products.enhanced_results.items[2]
    /\ Len(page.products.cards) = 3

\* C22: at every point of the frame loop the positive-evidence list is in
\* non-decreasing order, strictly increasing when
\* frame_interval * 1000 >= fps, and each of its elements is the timestamp
\* of a frame that was sampled and analysed.
C22_TimestampsOrdered ==
    pc \in {"loop", "vision", "sampled", "stamped", "summary"} =>
        /\ \A n \in 1..(Len(product_timestamps) - 1) :
               /\ product_timestamps[n] <= product_timestamps[n + 1]
               /\ frame_interval * 1000 >= fps =>
                      product_timestamps[n] < product_timestamps[n + 1]
        /\ \A n \in 1..Len(product_timestamps) :
               \E k \in 1..Len(analyses) :
                   /\ analyses[k].timestamp_ms = product_timestamps[n]
                   /\ analyses[k].frame % frame_interval = 0

\* C23: for every source with finitely many frames and every
\* frame_interval >= 1 the frame loop terminates: a step of the loop leaves
\* the frame index as it is or advances it by exactly one, and the point
\* where the summary call is made is eventually reached.
C23_LoopTerminates ==
    /\ [][frame_index' \in {frame_index, frame_index + 1}]_vars
    /\ <>(pc = "summary")

\* The class the placeholder text of an analysed frame shows.
ShownClass(a) ==
    IF a.response = TimeoutText(a.frame) THEN "timeout"
    ELSE IF a.response = ConnectionText(a.frame) THEN "connectivity"
    ELSE IF a.response = OtherErrorText(a.frame, a.type) THEN "other"
    ELSE "none"

\* C24: a failure in extract_products_from_image is put in exactly one
\* class, decided by the lower-cased exception message alone and in this
\* order: timeout if it contains "timeout"; else connectivity if it contains
\* "connection", "network" or "connect"; else other. The exception's type
\* has no part in it.
C24_ClassPrecedence ==
    \A k \in 1..Len(analyses) :
        analyses[k].kind = "failure" =>
            LET a   == analyses[k]
                low == Lower(a.message)
            IN  ShownClass(a) =
                    IF Contains(low, KwTimeout) THEN "timeout"
                    ELSE IF Contains(low, KwConnection) \/ Contains(low, KwNetwork)
                            \/ Contains(low, KwConnect)
                    THEN "connectivity"
                    ELSE "other"

\* A message with both "connection" and "timeout" was classed as timeout.
C24_Witness ==
    /\ Len(analyses) = 1
    /\ analyses[1].kind = "failure"
    /\ analyses[1].message = MsgConnectTimeout
    /\ analyses[1].type = TyRateLimitError
    /\ ShownClass(analyses[1]) = "timeout"

C25_ReturnedTimestamps ==
    pc = "returned" =>
        LET hidden == Contains(Lower(result.final_summary), UnNotVisible)
        IN  /\ ~hidden => result.timestamps = AppendedTimestamps
            /\ result.timestamps = <<>> => (AppendedTimestamps = <<>> \/ hidden)

\* Two timestamps were collected and both are returned.
C25_Witness ==
    /\ pc = "returned"
    /\ Len(AppendedTimestamps) = 2
    /\ result.timestamps = AppendedTimestamps
    /\ result.timestamps[1] < result.timestamps[2]

\* A step in which the Analyze handler has called the analysis: it has
\* displayed one of the two messages of lines 241 and 243.
AnalysisRan ==
    /\ page.notice \notin {"analysis_complete", "processing_error"}
    /\ page'.notice \in {"analysis_complete", "processing_error"}

\* C27: an Analyze click runs the analysis only when a file path, a
\* non-empty question and a recognised file type are all set; when the
\* analysis raises, the session's result, summary and timestamps keep the
\* values they had before the click; and for a file that is not a video the
\* timestamps stored by the click are empty.
C27_AnalyzeGuardedAndAtomic ==
    [][AnalysisRan =>
         /\ Truthy(session_state.file_path)
         /\ session_state.file_type \in {"video", "image"}
         /\ user_question' # <<>>
         /\ video_path' = session_state.file_path
         /\ page'.notice = "processing_error" =>
                /\ session_state'.has_result = session_state.has_result
                /\ session_state'.result = session_state.result
                /\ session_state'.summary = session_state.summary
                /\ session_state'.timestamps = session_state.timestamps
         /\ (page'.notice = "analysis_complete"
               /\ session_state.file_type # "video") =>
                session_state'.timestamps = <<>>]_vars

\* An analysis of a video has raised after an earlier one had stored a
\* summary and timestamps, which the session still holds.
C27_Witness ==
    /\ page.notice = "processing_error"
    /\ raised.stage = "analysis"
    /\ session_state.file_type = "video"
    /\ session_state.has_result
    /\ session_state.summary = SumMarkerTide
    /\ session_state.timestamps = <<0, 1000>>

\* C28: whenever the timeline section is shown, the summary and the
\* timestamps held in the session were produced by analysing the file that
\* the session's file_path names: the markers are never those of a
\* previously analysed file over a newly selected one.
C28_TimelineOfCurrentFile ==
    page.timeline.shown => page.timeline.analysed_path = page.timeline.video

\* C29: the Clear Session handler resets file_path and file_type to None and
\* timestamps, summary and file_base64 to the empty string whether or not
\* the file could be deleted, and leaves every other key of the session,
\* the stored result among them, as it was.
C29_ClearResetsFiveKeys ==
    [][(page.notice \notin {"file_deleted", "delete_failed"}
          /\ page'.notice \in {"file_deleted", "delete_failed"}) =>
         /\ session_state'.file_path = NoneText
         /\ session_state'.file_type = "none"
         /\ session_state'.timestamps = <<>>
         /\ session_state'.summary = <<>>
         /\ session_state'.file_base64 = <<>>
         /\ session_state'.has_result = session_state.has_result
         /\ session_state'.result = session_state.result
         /\ session_state'.analysed_path = session_state.analysed_path]_vars

\* The file of an analysed session could not be deleted; the session is
\* reset and still holds the result with its product name.
C29_Witness ==
    /\ page.notice = "delete_failed"
    /\ session_state.file_path = NoneText
    /\ session_state.summary = <<>>
    /\ session_state.has_result
    /\ session_state.result.product_name # <<>>
    /\ session_state.result.final_summary = SumMarkerTide

\* C21: detect_products_in_image and _fallback_product_detection never raise
\* and always return a list: a status other than 200 and any exception in
\* the request or in the parsing of the answer lead to the fallback, and
\* any exception inside the fallback yields the empty list.
C21_DetectorAlwaysReturnsList ==
    /\ detection.pc # "raised"
    /\ ~detection.raised
    /\ detection.pc = "returned" =>
           DOMAIN detection.products = 1..Len(detection.products)
    /\ detection.cause # "none" =>
           /\ detection.entry = "detect"
           /\ detection.pc = "fallback" \/ detection.analysis # "none"
    /\ (detection.pc = "returned"
          /\ detection.analysis \in {"import_error", "raised", "text"}) =>
           detection.products = <<>>

\* The answer of the service could not be parsed (an empty list of
\* responses); the fallback was taken, its import failed, and the empty list
\* came back.
C21_Witness ==
    /\ detection.entry = "detect"
    /\ detection.cause = "parse_error"
    /\ detection.analysis = "import_error"
    /\ detection.pc = "returned"
    /\ detection.products = <<>>

====
